---------------------------- MODULE Spec2Model ----------------------------
(***************************************************************************)
(* Model of the write-ahead-logged key-value store (WAL + KV): the record  *)
(* codec with its IEEE CRC32, the buffered log writer, the replayer and    *)
(* the store facade with its concurrent Get/Set/Del callers, process       *)
(* crashes and injected I/O faults.                                        *)
(***************************************************************************)
EXTENDS Integers, Sequences, FiniteSets, TLC

(***************************************************************************)
(* Bytes.  A byte is an integer in 0..255; a []byte is a sequence of them. *)
(***************************************************************************)
Byte == 0..255

\* Op codes.
opSet == 1
opDel == 2

\* Sanity limits of Replay.
maxKey == 1048576
maxVal == 67108864

\* exclusive-or of two 4-bit values, bit by bit
Bit(a, k) == (a \div k) % 2

XorNibble(a, b) ==
    ((Bit(a, 1) + Bit(b, 1)) % 2)
    + 2 * ((Bit(a, 2) + Bit(b, 2)) % 2)
    + 4 * ((Bit(a, 4) + Bit(b, 4)) % 2)
    + 8 * ((Bit(a, 8) + Bit(b, 8)) % 2)

XorNibbleTable == [a \in 0..15 |-> [b \in 0..15 |-> XorNibble(a, b)]]

\* exclusive-or of two bytes, tabulated
XorTable ==
    [a \in Byte |-> [b \in Byte |->
        16 * XorNibbleTable[a \div 16][b \div 16] + XorNibbleTable[a % 16][b % 16]]]

XorByte(a, b) == XorTable[a][b]

\* a faulty variant: the four bytes of n, most significant first
PutUint32BE(n) ==
    << (n \div 16777216) % 256, (n \div 65536) % 256, (n \div 256) % 256, n % 256 >>

\* binary.LittleEndian.PutUint32: the four bytes of n, least significant first
PutUint32(n) ==
    << n % 256, (n \div 256) % 256, (n \div 65536) % 256, (n \div 16777216) % 256 >>

\* binary.LittleEndian.Uint32 of four bytes.  Values of 2^31 and more are all
\* read as 2^31 - 1: the program only compares the result with maxKey and
\* maxVal, both far below, so the comparison's outcome is the same.
Uint32(b) ==
    IF b[4] >= 128 THEN 2147483647
    ELSE b[1] + 256 * b[2] + 65536 * b[3] + 16777216 * b[4]

(***************************************************************************)
(* hash/crc32, IEEE polynomial (reversed form 0xEDB88320).  A 32-bit value *)
(* is kept as its four little-endian bytes, which is also how the record   *)
(* stores it.                                                              *)
(***************************************************************************)
\* 0xEDB88320, least significant byte first
IEEEPoly == << 32, 131, 184, 237 >>

Xor32(x, y) ==
    << XorByte(x[1], y[1]), XorByte(x[2], y[2]),
       XorByte(x[3], y[3]), XorByte(x[4], y[4]) >>

\* x >> 1 on a 32-bit value
Shr1(x) ==
    << (x[1] \div 2) + 128 * (x[2] % 2), (x[2] \div 2) + 128 * (x[3] % 2),
       (x[3] \div 2) + 128 * (x[4] % 2), x[4] \div 2 >>

\* one step of the bitwise CRC: shift, and xor the polynomial in when a 1 fell out
CrcBit(x) == IF x[1] % 2 = 1 THEN Xor32(Shr1(x), IEEEPoly) ELSE Shr1(x)

\* the table crc32.MakeTable(crc32.IEEE) builds: eight bit steps of each byte
IEEETable ==
    [i \in Byte |->
        CrcBit(CrcBit(CrcBit(CrcBit(CrcBit(CrcBit(CrcBit(CrcBit(<<i, 0, 0, 0>>))))))))]

\* t ^ (crc >> 8)
XorShr8(t, crc) ==
    << XorByte(t[1], crc[2]), XorByte(t[2], crc[3]), XorByte(t[3], crc[4]), t[4] >>

\* crc = table[byte(crc) ^ b] ^ (crc >> 8)
CrcUpdateByte(crc, b) == XorShr8(IEEETable[XorByte(crc[1], b)], crc)

\* crc32.Update over p[i..]: for _, v := range p { crc = ... }.  (The test on
\* next makes TLC compute each step before it descends, not in one deep nest
\* at the end.)
RECURSIVE CrcUpdate(_, _, _)
CrcUpdate(crc, p, i) ==
    IF i > Len(p) THEN crc
    ELSE LET next == CrcUpdateByte(crc, p[i])
         IN  IF next[1] \in Byte THEN CrcUpdate(next, p, i + 1) ELSE next

\* ^c on a 32-bit value
Not32(c) == << 255 - c[1], 255 - c[2], 255 - c[3], 255 - c[4] >>

\* a faulty variant: the checksum covers the header alone
ChecksumHeader(p) == Not32(CrcUpdate(<<255, 255, 255, 255>>, SubSeq(p, 1, 9), 1))

\* h := crc32.NewIEEE(); h.Write(p); h.Sum32(), as four little-endian bytes
\* (crc starts as ^0 and is complemented at the end)
ChecksumIEEE(p) == Not32(CrcUpdate(<<255, 255, 255, 255>>, p, 1))

(***************************************************************************)
(* The record codec.  A record on disk is                                  *)
(*   [1 byte op][4 bytes keyLen][4 bytes valLen][key][val][4 bytes crc32]  *)
(* with the crc32 taken over op|keyLen|valLen|key|val.                     *)
(***************************************************************************)
HeaderLen == 9
CrcLen == 4

\* header[0] = op; PutUint32(header[1:5], len(key)); PutUint32(header[5:9], len(val))
Header(op, key, val) == <<op>> \o PutUint32(Len(key)) \o PutUint32(Len(val))

\* number of bytes of a record
RecordLen(key, val) == HeaderLen + Len(key) + Len(val) + CrcLen

\* The bytes appendRecord hands to the buffered writer, in the order of its
\* Write calls: header, key, val (only when len(val) > 0), crcBuf.
RecordBytes(op, key, val) ==
    LET header == Header(op, key, val)
        sum    == ChecksumIEEE(header \o key \o (IF Len(val) > 0 THEN val ELSE <<>>))
    IN  header \o key \o (IF Len(val) > 0 THEN val ELSE <<>>) \o sum

(***************************************************************************)
(* WAL.Replay.  The stream is the file's bytes; ioerr says whether the     *)
(* stream ends in a device error instead of end-of-file.  The result is    *)
(* the sequence of apply(op, key, val) calls made, in order, and whether   *)
(* Replay returned an error.                                               *)
(***************************************************************************)
\* a faulty variant: too little left before end-of-file is an error
ReadFullStrict(bytes, pos, n, ioerr) ==
    IF pos + n <= Len(bytes) THEN "ok"
    ELSE IF ioerr \/ pos < Len(bytes) THEN "err" ELSE "eof"

\* io.ReadFull(br, buf[:n]) at offset pos (0-based): "ok" when n bytes are
\* there, else "eof" (nothing or too little left before end-of-file) or
\* "err" (the stream ends in a device error).
ReadFull(bytes, pos, n, ioerr) ==
    IF pos + n <= Len(bytes) THEN "ok" ELSE IF ioerr THEN "err" ELSE "eof"

\* a faulty variant: a zero keyLen passes
BadLengthsZeroKey(keyLen, valLen) == keyLen > maxKey \/ valLen > maxVal

\* the sanity limits on a header's lengths
BadLengths(keyLen, valLen) == keyLen = 0 \/ keyLen > maxKey \/ valLen > maxVal

RECURSIVE ReplayFrom(_, _, _, _)
ReplayFrom(bytes, pos, ioerr, calls) ==
    LET hdr == ReadFull(bytes, pos, HeaderLen, ioerr) IN
    IF hdr = "eof" THEN [calls |-> calls, err |-> FALSE]
    ELSE IF hdr = "err" THEN [calls |-> calls, err |-> TRUE]
    ELSE
      LET op     == bytes[pos + 1]
          keyLen == Uint32(SubSeq(bytes, pos + 2, pos + 5))
          valLen == Uint32(SubSeq(bytes, pos + 6, pos + 9))
      IN
      IF BadLengths(keyLen, valLen)
      THEN [calls |-> calls, err |-> FALSE]
      ELSE IF ReadFull(bytes, pos + HeaderLen, keyLen, ioerr) # "ok"
      THEN [calls |-> calls, err |-> FALSE]
      ELSE IF valLen > 0 /\ ReadFull(bytes, pos + HeaderLen + keyLen, valLen, ioerr) # "ok"
      THEN [calls |-> calls, err |-> FALSE]
      ELSE IF ReadFull(bytes, pos + HeaderLen + keyLen + valLen, CrcLen, ioerr) # "ok"
      THEN [calls |-> calls, err |-> FALSE]
      ELSE
        LET body    == SubSeq(bytes, pos + 1, pos + HeaderLen + keyLen + valLen)
            key     == SubSeq(bytes, pos + HeaderLen + 1, pos + HeaderLen + keyLen)
            val     == SubSeq(bytes, pos + HeaderLen + keyLen + 1,
                              pos + HeaderLen + keyLen + valLen)
            wantCRC == SubSeq(bytes, pos + HeaderLen + keyLen + valLen + 1,
                              pos + HeaderLen + keyLen + valLen + CrcLen)
            gotCRC  == ChecksumIEEE(body)
        IN
        IF gotCRC # wantCRC
        THEN [calls |-> calls, err |-> FALSE]
        ELSE ReplayFrom(bytes, pos + HeaderLen + keyLen + valLen + CrcLen, ioerr,
                        Append(calls, [op |-> op, key |-> key, val |-> val]))

Replay(bytes, ioerr) == ReplayFrom(bytes, 0, ioerr, <<>>)

(***************************************************************************)
(* The table: kv.mem, a Go map from string to []byte, as a function whose  *)
(* domain is the set of keys present.                                      *)
(***************************************************************************)
EmptyMap == [k \in {} |-> <<>>]

MapPut(m, k, v) == [x \in (DOMAIN m) \cup {k} |-> IF x = k THEN v ELSE m[x]]

\* a faulty variant: deleting a key that is absent inserts it
MapDeleteToggle(m, k) ==
    IF k \in DOMAIN m THEN [x \in (DOMAIN m) \ {k} |-> m[x]]
    ELSE [x \in (DOMAIN m) \cup {k} |-> IF x = k THEN <<>> ELSE m[x]]

\* delete(kv.mem, key)
MapDelete(m, k) == [x \in (DOMAIN m) \ {k} |-> m[x]]

\* v, ok := kv.mem[key]
\* a faulty variant: every key is reported missing
MapLookupMiss(m, k) == [found |-> FALSE, val |-> <<>>]

MapLookup(m, k) ==
    IF k \in DOMAIN m THEN [found |-> TRUE, val |-> m[k]]
    ELSE [found |-> FALSE, val |-> <<>>]

\* The callback OpenKV gives Replay: SET stores a copy, DEL deletes, any
\* other op code falls through the switch.
\* a faulty variant: DEL records are skipped
ReplayApplyNoDel(m, c) == IF c.op = opSet THEN MapPut(m, c.key, c.val) ELSE m

\* a faulty variant: any op code other than SET deletes
ReplayApplyElseDel(m, c) ==
    IF c.op = opSet THEN MapPut(m, c.key, c.val) ELSE MapDelete(m, c.key)

ReplayApply(m, c) ==
    IF c.op = opSet THEN MapPut(m, c.key, c.val)
    ELSE IF c.op = opDel THEN MapDelete(m, c.key)
    ELSE m

RECURSIVE ApplyCalls(_, _, _)
ApplyCalls(m, calls, i) ==
    IF i > Len(calls) THEN m ELSE ApplyCalls(ReplayApply(m, calls[i]), calls, i + 1)

(***************************************************************************)
(* The buffered writer (bufio.Writer over the O_APPEND file): buf is the   *)
(* bytes not yet handed to the file, err the sticky error a failed write   *)
(* leaves behind.  Every record of the model is far smaller than the 1 MB  *)
(* buffer, so a Write only ever copies into the buffer.  Once err is set   *)
(* Write and Flush return it before touching the buffer, so what the       *)
(* buffer still holds can never reach the file: the model drops it.        *)
(***************************************************************************)
NewWriter == [buf |-> <<>>, err |-> FALSE]

\* bufw.Write(p)
BufWrite(b, p) == IF b.err THEN b ELSE [b EXCEPT !.buf = @ \o p]

\* bufw.Flush(), the file's Write accepting n bytes of the buffer: fewer than
\* all of them is an error, which sticks.
BufFlush(b, f, n) ==
    IF b.err THEN [bufw |-> b, file |-> f, err |-> TRUE]
    ELSE IF Len(b.buf) = 0 THEN [bufw |-> b, file |-> f, err |-> FALSE]
    ELSE IF n < Len(b.buf)
    THEN [bufw |-> [buf |-> <<>>, err |-> TRUE],
          file |-> f \o SubSeq(b.buf, 1, n), err |-> TRUE]
    ELSE [bufw |-> [buf |-> <<>>, err |-> FALSE], file |-> f \o b.buf, err |-> FALSE]

(***************************************************************************)
(* Bounds of the model.                                                    *)
(***************************************************************************)
\* Set/Del calls started, over the whole run
MaxOps == 3
\* faults over the whole run: a short write, a failed fsync, a stop of the
\* process in which the file loses bytes
MaxFaults == 1
\* OpenKV calls after the first, over the whole run
MaxOpens == 2
\* an incomplete record is cut after Stray bytes, after its header, or before
\* its last byte
Stray == 3

\* the goroutines calling Get/Set/Del
Threads == {1, 2}
\* keys callers pass: "a" and the empty key
Keys == { <<97>>, <<>> }
\* values callers pass: "1" and "2"
Vals == { <<49>>, <<50>> }

\* The records these calls can write, encoded once (RecordBytes is a pure
\* function of the call's arguments).
Encoded ==
    [op \in {opSet, opDel} |->
        [key \in Keys |->
            [val \in Vals \cup {<<>>} |-> RecordBytes(op, key, val)]]]

\* a faulty variant of appendRecord: the error of a short write is dropped
AppendRecordNoErr(b, f, op, key, val, n) ==
    [BufFlush(BufWrite(b, Encoded[op][key][val]), f, n) EXCEPT !.err = FALSE]

\* WAL.appendRecord under w.mu: the record's Writes, then Flush
AppendRecord(b, f, op, key, val, n) ==
    IF b.err THEN [bufw |-> b, file |-> f, err |-> TRUE]
    ELSE BufFlush(BufWrite(b, Encoded[op][key][val]), f, n)

(***************************************************************************)
(* State.                                                                  *)
(***************************************************************************)
VARIABLES
    file,        \* the log file's bytes as the OS holds them
    synced,      \* how many of them are on stable storage
    bufw,        \* w.bufw
    fclosed,     \* w.f has been closed
    mem,         \* kv.mem
    fsyncEvery,  \* kv.fsyncEvery
    state,       \* "open": OpenKV returned a store; "closed": Close returned;
                 \* "down": the process is not running
    pc,          \* per goroutine: "idle", or where its Set/Del stands:
                 \* "sync" (appended, wal.Sync next), "apply" (table update next)
    call,        \* per goroutine: the Set/Del in flight
    ret,         \* what the step just taken returned to its caller, when the
                 \* step is the return of a Get/Set/Del (NoRet otherwise)
    segs,        \* history: what each append put into the file
    sess,        \* history: the session since the last OpenKV
    prev,        \* history: what the OpenKV just returned rebuilt, against the
                 \* session that ended before it (NoRecovery after any other step)
    known,       \* history: per key, what the table must hold (see KnownAfter)
    nops, nfault, nopen,  \* calls started, faults injected, reopens done
    rlog,        \* SpecReplay: the records a writer appended to a log
    rfile,       \* SpecReplay: the log file's bytes
    rdmg,        \* SpecReplay: what then damaged the file
    rout,        \* SpecReplay: what Replay made of it
    keys,        \* SpecRing: r.keys, the sorted hashes of the virtual nodes
    lookup,      \* SpecRing: r.lookup, hash -> node address
    replicas,    \* SpecRing: r.replicas, virtual nodes per node
    routed,      \* SpecRing, history: per key, its route before the last Remove
    removed,     \* SpecRing, history: the node the step just taken removed
    got,         \* SpecRing: what the Get just made returned
    items,       \* SpecEvict: s.items, key -> entry (Value, Bytes)
    maxKeys,     \* SpecEvict: s.maxKeys
    maxBytes,    \* SpecEvict: s.maxBytes
    keysUsed,    \* SpecEvict: s.keysUsed
    bytesUsed,   \* SpecEvict: s.bytesUsed
    evictor,     \* SpecEvict: s.evictor, the state of the LRU, LFU or Random evictor
    stuck,       \* SpecEvict: a call is in a loop that never ends, holding s.mu
    eret,        \* SpecEvict: what the call just made returned
    lastUse,     \* SpecEvict, history: per key in items, the rank of the store's
                 \* most recent OnAdd/OnGet/OnUpdate call for it among those
                 \* of the keys in items (1: the oldest)
    wmu,         \* SpecLock: w.mu, the goroutine holding it (0: free)
    kvmu,        \* SpecLock: kv.mu, its writer (0: none) and its readers
    at,          \* SpecLock: per goroutine, the statement it is about to execute
    job,         \* SpecLock: per goroutine, the call it is in
    order,       \* SpecLock, history: the appendRecord calls in the order they
                 \* acquired w.mu, and how each ended
    done,        \* SpecLock: what the call that just returned returned
    ncalls,      \* SpecLock: calls started
    heap,        \* SpecSlices: the byte arrays allocated, by address
    memp,        \* SpecSlices: kv.mem, key -> address of the array its slice is of
    held,        \* SpecSlices: the slices the caller holds, by address, each
                 \* passed to "set" or returned by "get"
    want,        \* SpecSlices, history: per key, the value of the last Set as it
                 \* was when Set returned
    cgot,        \* SpecSlices: the Get that just returned and what it returned
    balance,     \* SpecAccount: a.balance
    version,     \* SpecAccount: a.version
    dpc,         \* SpecAccount: per worker, the statement of Deposit it is about
                 \* to execute ("done": Deposit has returned)
    bal,         \* SpecAccount: per worker, Deposit's bal
    ver,         \* SpecAccount: per worker, Deposit's ver
    configs,     \* SpecCow: the Config structs allocated, by address (Routes is
                 \* the address of the struct's map)
    routemaps,   \* SpecCow: the Routes maps allocated, by address
    sp,          \* SpecCow: s.p, the address of the published Config
    upc,         \* SpecCow: per updater, the statement of Update it is about
                 \* to execute ("done": Update has returned)
    uold,        \* SpecCow: per updater, Update's old
    unext,       \* SpecCow: per updater, Update's next
    loaded       \* SpecCow, history: what Load returned, each address with
                 \* the Config as it was when Load returned

vars == << file, synced, bufw, fclosed, mem, fsyncEvery, state, pc, call, ret,
           segs, sess, prev, known, nops, nfault, nopen,
           rlog, rfile, rdmg, rout,
           keys, lookup, replicas, routed, removed, got,
           items, maxKeys, maxBytes, keysUsed, bytesUsed, evictor, stuck, eret,
           lastUse,
           wmu, kvmu, at, job, order, done, ncalls,
           heap, memp, held, want, cgot,
           balance, version, dpc, bal, ver,
           configs, routemaps, sp, upc, uold, unext, loaded >>

kvvars == << file, synced, bufw, fclosed, mem, fsyncEvery, state, pc, call, ret,
             segs, sess, prev, known, nops, nfault, nopen >>

rvars == << rlog, rfile, rdmg, rout >>

hvars == << keys, lookup, replicas, routed, removed, got >>

\* the variables of the other programs of the repository
evars == << items, maxKeys, maxBytes, keysUsed, bytesUsed, evictor, stuck, eret,
           lastUse >>

lvars == << wmu, kvmu, at, job, order, done, ncalls >>

cvars == << heap, memp, held, want, cgot >>

avars == << balance, version, dpc, bal, ver >>

wvars == << configs, routemaps, sp, upc, uold, unext, loaded >>

zvars == << lvars, cvars, avars, wvars >>

xvars == << hvars, evars, zvars >>

GetOp == 3

\* A call in flight: its arguments; before, the table when it started; seg, the
\* number of its record in segs; ovl, another call on its key was in flight with
\* it; latest, no call on its key has started since.
NoCall == [op |-> 0, key |-> <<>>, val |-> <<>>, before |-> EmptyMap, seg |-> 0,
           ovl |-> FALSE, latest |-> FALSE]

NotFound == [found |-> FALSE, val |-> <<>>]
Found(v) == [found |-> TRUE, val |-> v]
Results == {NotFound} \cup {Found(v) : v \in Vals}
\* no statement about a key
Unknown == [found |-> FALSE, val |-> <<0>>]

\* A return: the call's op, key and value; err, it returned an error; dirty, the
\* table is not the one the call started with; out, the entry a Get returned; seg, the number of its
\* record in segs (0: it appended none); had, the key was in the table when the
\* call started.
NoRet == [op |-> 0, key |-> <<>>, val |-> <<>>, err |-> FALSE, dirty |-> FALSE,
          out |-> NotFound, seg |-> 0, had |-> FALSE]

\* what a Set/Del does to a table, as the contract states it
Effect(op, val) == IF op = opSet THEN Found(val) ELSE NotFound

SpecApply(m, op, key, val) ==
    IF op = opSet THEN MapPut(m, key, val) ELSE MapDelete(m, key)

\* segs: a complete record is remembered by the call that wrote it, an
\* incomplete one by its length alone.
Seg(op, key, val) == [op |-> op, key |-> key, val |-> val, n |-> RecordLen(key, val)]
Torn(n) == [op |-> 0, key |-> <<>>, val |-> <<>>, n |-> n]
Whole(seg) == seg.op # 0

\* the records up to the first that is incomplete or has an empty key
RECURSIVE GoodPrefix(_)
GoodPrefix(sg) ==
    IF sg = <<>> \/ ~Whole(sg[1]) \/ sg[1].key = <<>> THEN <<>>
    ELSE << [op |-> sg[1].op, key |-> sg[1].key, val |-> sg[1].val] >>
         \o GoodPrefix(Tail(sg))

\* the log is well-formed records followed by one incomplete record
TornTail(sg) ==
    /\ Len(sg) > 0
    /\ ~Whole(sg[Len(sg)])
    /\ \A i \in 1..(Len(sg) - 1) : Whole(sg[i]) /\ sg[i].key # <<>>

NewSession(table, sg, f) ==
    [ fresh    |-> sg = <<>>,    \* OpenKV found an empty log: a fresh store
      file0    |-> f,            \* the log file as OpenKV found it
      table0   |-> table,        \* the table OpenKV rebuilt
      wrote    |-> FALSE,        \* a Set/Del was called
      torn     |-> TornTail(sg), \* ... a log whose last record is incomplete
      expect   |-> table,        \* the table OpenKV rebuilt, with the session's
                                 \* successful calls applied to it in order
      failed   |-> FALSE,        \* a Set/Del returned an error
      badkey   |-> FALSE,        \* a Set/Del was called with the empty key
      acked    |-> [k \in Keys |-> Unknown],
                                 \* per key: the value of the last Set that returned
                                 \* success under policy 1, no call on the key since
      how      |-> "none",       \* how the session ended: "close"; "kill" (the
                                 \* process stopped, the OS kept every byte handed
                                 \* to it); "loss" (unsynced bytes were lost)
      inflight |-> FALSE ]       \* the stop caught a Set/Del in flight

\* What OpenKV rebuilt, against the session s that ended before it.
Recovered(s, calls, table, f) ==
    [ valid    |-> TRUE,
      idle     |-> ~s.wrote,           \* the session made no Set/Del call
      filesame |-> f = s.file0,        \* the file is as the session found it
      calls    |-> calls,              \* the apply calls the replay made
      same     |-> table = s.expect,   \* the table is the one the session ended with
      acks     |-> \E k \in Keys : s.acked[k] # Unknown,
      ackok    |-> \A k \in Keys :
                      s.acked[k] # Unknown => MapLookup(table, k) = s.acked[k],
      fresh    |-> s.fresh,
      torn     |-> s.torn,
      failed   |-> s.failed,
      badkey   |-> s.badkey,
      how      |-> s.how,
      inflight |-> s.inflight ]

NoRecovery ==
    [Recovered(NewSession(EmptyMap, <<>>, <<>>), <<>>, EmptyMap, <<>>)
        EXCEPT !.valid = FALSE]

\* SpecLock: a call (op: opSet, opDel, GetOp or CloseOp) and a return
CloseOp == 4
NoJob == [op |-> 0, key |-> <<>>, val |-> <<>>]
NoDone == [t |-> 0, op |-> 0, key |-> <<>>, val |-> <<>>, err |-> FALSE, out |-> NotFound]

\* SpecAccount: main's workers, one Deposit(amount) each
NWorkers == 3
Workers == 1..NWorkers
amount == 1

\* SpecCow: the goroutines that call Update, once each
NUpdaters == 2
Updaters == 1..NUpdaters

\* the Limit of the Config NewStore publishes
InitialLimit == 10

\* SpecSlices: no Get has returned
NoGot == [key |-> <<>>, found |-> FALSE, val |-> <<>>, addr |-> 0]

NoDamage == [kind |-> "none", rec |-> 0, region |-> "none"]
NotReplayed == [done |-> FALSE, calls |-> <<>>, err |-> FALSE]

KVInit ==
    /\ file = <<>>
    /\ synced = 0
    /\ bufw = NewWriter
    /\ fclosed = FALSE
    /\ mem = EmptyMap
    /\ fsyncEvery \in {0, 1}
    /\ state = "open"
    /\ pc = [t \in Threads |-> "idle"]
    /\ call = [t \in Threads |-> NoCall]
    /\ ret = NoRet
    /\ segs = <<>>
    /\ sess = NewSession(EmptyMap, <<>>, <<>>)
    /\ prev = NoRecovery
    /\ known = [k \in Keys |-> NotFound]
    /\ nops = 0
    /\ nfault = 0
    /\ nopen = 0
    /\ rlog = <<>>
    /\ rfile = <<>>
    /\ rdmg = NoDamage
    /\ rout = NotReplayed
    /\ wmu = 0
    /\ kvmu = [w |-> 0, r |-> {}]
    /\ at = [t \in Threads |-> "idle"]
    /\ job = [t \in Threads |-> NoJob]
    /\ order = <<>>
    /\ done = NoDone
    /\ ncalls = 0
    /\ heap = <<>>
    /\ memp = EmptyMap
    /\ held = EmptyMap
    /\ want = EmptyMap
    /\ cgot = NoGot
    /\ balance = 0
    /\ version = 0
    /\ dpc = [w \in Workers |-> "load"]
    /\ bal = [w \in Workers |-> 0]
    /\ ver = [w \in Workers |-> 0]
    /\ configs = << [Routes |-> 1, Limit |-> InitialLimit] >>
    /\ routemaps = << [k \in {"home"} |-> "/"] >>
    /\ sp = 1
    /\ upc = [u \in Updaters |-> "load"]
    /\ uold = [u \in Updaters |-> 0]
    /\ unext = [u \in Updaters |-> 0]
    /\ loaded = {}

\* NewHashRing(n)
NoNode == <<>>
NoRoute == [addr |-> NoNode, ok |-> FALSE]

NewHashRing(n) ==
    /\ keys = <<>>
    /\ lookup = EmptyMap
    /\ replicas = n
    /\ routed = EmptyMap
    /\ removed = NoNode
    /\ got = NoRoute

\* --- LRUEvictor: ll, front = most recently used; nodes, key -> element
NewLRUEvictor == [name |-> "LRU", ll |-> <<>>, nodes |-> {}]

\* what a call of the eviction store returned
NoEvRet == [op |-> "none", key |-> <<>>, val |-> <<>>, err |-> FALSE,
            found |-> FALSE, out |-> <<>>, evicted |-> 0]

\* NewStore(mk, mb, ev)
NewStore(mk, mb, ev) ==
    /\ items = EmptyMap
    /\ maxKeys = mk
    /\ maxBytes = mb
    /\ keysUsed = 0
    /\ bytesUsed = 0
    /\ evictor = ev
    /\ stuck = FALSE
    /\ eret = NoEvRet
    /\ lastUse = EmptyMap

\* the proxy's default for -replicas
DefaultReplicas == 3

Init == KVInit /\ NewHashRing(DefaultReplicas) /\ NewStore(0, 0, NewLRUEvictor)

InFlight == {t \in Threads : pc[t] # "idle"}

\* where the device may cut a record of L bytes short
Cuts(L) == {0, Stray, HeaderLen, L - 1, L} \cap (0..L)

\* the file's first n bytes end at one of these cuts
RECURSIVE CutAt(_, _)
CutAt(sg, n) ==
    IF n = 0 THEN TRUE
    ELSE IF sg = <<>> THEN FALSE
    ELSE IF sg[1].n <= n THEN CutAt(Tail(sg), n - sg[1].n)
    ELSE n \in Cuts(sg[1].n)

\* segs cut to the first n bytes of the file
RECURSIVE TruncSegs(_, _)
TruncSegs(sg, n) ==
    IF sg = <<>> \/ n = 0 THEN <<>>
    ELSE IF sg[1].n <= n THEN <<sg[1]>> \o TruncSegs(Tail(sg), n - sg[1].n)
    ELSE << Torn(n) >>

(***************************************************************************)
(* KV.Set and KV.Del, first step: kv.wal.AppendSET / AppendDEL.  The file  *)
(* accepts n bytes of the record; fewer than all is a write failure, and   *)
(* the call returns the error.                                             *)
(***************************************************************************)
KVAppend(t, op, key, val, n) ==
    LET L      == RecordLen(key, val)
        others == {u \in InFlight \ {t} : call[u].key = key}
    IN
    /\ state \in {"open", "closed"}
    /\ pc[t] = "idle"
    /\ nops < MaxOps
    /\ IF bufw.err \/ fclosed THEN n = 0 ELSE n = L \/ nfault < MaxFaults
    /\ nops' = nops + 1
    /\ nfault' = IF ~bufw.err /\ ~fclosed /\ n < L THEN nfault + 1 ELSE nfault
    /\ UNCHANGED mem
    /\ \E r \in {AppendRecord(bufw, file, op, key, val, n)} :
         /\ bufw' = r.bufw
         /\ file' = r.file
         /\ segs' = IF Len(file') - Len(file) = L THEN Append(segs, Seg(op, key, val))
                    ELSE IF Len(file') > Len(file)
                    THEN Append(segs, Torn(Len(file') - Len(file)))
                    ELSE segs
         /\ sess' = [sess EXCEPT !.failed = @ \/ r.err,
                                 !.wrote = TRUE,
                                 !.badkey = @ \/ key = <<>>,
                                 !.acked[key] = Unknown]
         /\ known' = [known EXCEPT ![key] =
                         IF r.err \/ others # {} THEN Unknown ELSE @]
         /\ call' = [u \in Threads |->
                       IF u = t /\ ~r.err
                       THEN [op |-> op, key |-> key, val |-> val, before |-> mem,
                             seg |-> Len(segs'), ovl |-> others # {}, latest |-> TRUE]
                       ELSE IF u \in others
                       THEN [call[u] EXCEPT !.ovl = TRUE, !.latest = FALSE]
                       ELSE call[u]]
         /\ IF r.err
            THEN /\ ret' = [op |-> op, key |-> key, val |-> val, err |-> TRUE,
                            dirty |-> mem' # mem, out |-> NotFound, seg |-> 0,
                            had |-> key \in DOMAIN mem]
                 /\ UNCHANGED pc
            ELSE /\ pc' = [pc EXCEPT ![t] = IF fsyncEvery = 1 THEN "sync" ELSE "apply"]
                 /\ ret' = NoRet
    /\ prev' = NoRecovery
    /\ UNCHANGED << rvars, xvars >>
    /\ UNCHANGED << synced, fclosed, fsyncEvery, state, nopen >>

KVSetAppend(t, key, val, n) == KVAppend(t, opSet, key, val, n)

\* AppendDEL passes a nil value
KVDelAppend(t, key, n) == KVAppend(t, opDel, key, <<>>, n)

\* a faulty variant of KVSync: the table is updated although the sync failed
KVSyncInstalls(t, ok) ==
    LET r      == BufFlush(bufw, file, IF fclosed THEN 0 ELSE Len(bufw.buf))
        canok  == ~r.err /\ ~fclosed
        c      == call[t]
    IN
    /\ state \in {"open", "closed"}
    /\ pc[t] = "sync"
    /\ ~ok => canok /\ nfault < MaxFaults
    /\ bufw' = r.bufw
    /\ file' = r.file
    /\ IF canok /\ ok
       THEN /\ synced' = Len(r.file)
            /\ UNCHANGED mem
            /\ pc' = [pc EXCEPT ![t] = "apply"]
            /\ ret' = NoRet
            /\ UNCHANGED << call, sess, known, nfault >>
       ELSE /\ mem' = SpecApply(mem, c.op, c.key, c.val)
            /\ pc' = [pc EXCEPT ![t] = "idle"]
            /\ call' = [call EXCEPT ![t] = NoCall]
            /\ ret' = [op |-> c.op, key |-> c.key, val |-> c.val, err |-> TRUE,
                       dirty |-> mem' # c.before, out |-> NotFound, seg |-> c.seg,
                       had |-> c.key \in DOMAIN c.before]
            /\ sess' = [sess EXCEPT !.failed = TRUE]
            /\ known' = [known EXCEPT ![c.key] = Unknown]
            /\ nfault' = IF canok THEN nfault + 1 ELSE nfault
            /\ UNCHANGED synced
    /\ prev' = NoRecovery
    /\ UNCHANGED << rvars, xvars >>
    /\ UNCHANGED << fclosed, fsyncEvery, state, segs, nops, nopen >>

(***************************************************************************)
(* KV.Set and KV.Del, second step when fsyncEvery == 1: kv.wal.Sync(),     *)
(* under w.mu again: Flush, then f.Sync(), which succeeds (ok) or fails.   *)
(***************************************************************************)
KVSync(t, ok) ==
    LET r      == BufFlush(bufw, file, IF fclosed THEN 0 ELSE Len(bufw.buf))
        canok  == ~r.err /\ ~fclosed
        c      == call[t]
    IN
    /\ state \in {"open", "closed"}
    /\ pc[t] = "sync"
    /\ ~ok => canok /\ nfault < MaxFaults
    /\ bufw' = r.bufw
    /\ file' = r.file
    /\ UNCHANGED mem
    /\ IF canok /\ ok
       THEN /\ synced' = Len(r.file)
            /\ pc' = [pc EXCEPT ![t] = "apply"]
            /\ ret' = NoRet
            /\ UNCHANGED << call, sess, known, nfault >>
       ELSE /\ pc' = [pc EXCEPT ![t] = "idle"]
            /\ call' = [call EXCEPT ![t] = NoCall]
            /\ ret' = [op |-> c.op, key |-> c.key, val |-> c.val, err |-> TRUE,
                       dirty |-> mem' # c.before, out |-> NotFound, seg |-> c.seg,
                       had |-> c.key \in DOMAIN c.before]
            /\ sess' = [sess EXCEPT !.failed = TRUE]
            /\ known' = [known EXCEPT ![c.key] = Unknown]
            /\ nfault' = IF canok THEN nfault + 1 ELSE nfault
            /\ UNCHANGED synced
    /\ prev' = NoRecovery
    /\ UNCHANGED << rvars, xvars >>
    /\ UNCHANGED << fclosed, fsyncEvery, state, segs, nops, nopen >>

(***************************************************************************)
(* KV.Set and KV.Del, last step: the table update under kv.mu, return nil. *)
(***************************************************************************)
KVApply(t) ==
    LET c == call[t] IN
    /\ state \in {"open", "closed"}
    /\ pc[t] = "apply"
    /\ mem' = IF c.op = opSet THEN MapPut(mem, c.key, c.val) ELSE MapDelete(mem, c.key)
    /\ pc' = [pc EXCEPT ![t] = "idle"]
    /\ call' = [call EXCEPT ![t] = NoCall]
    /\ ret' = [op |-> c.op, key |-> c.key, val |-> c.val, err |-> FALSE,
               dirty |-> mem' # c.before, out |-> MapLookup(mem', c.key), seg |-> c.seg,
               had |-> c.key \in DOMAIN c.before]
    /\ sess' = [sess EXCEPT !.expect = SpecApply(@, c.op, c.key, c.val),
                            !.acked[c.key] =
                                IF c.latest /\ fsyncEvery = 1 /\ c.op = opSet
                                THEN Found(c.val) ELSE @]
    /\ known' = [known EXCEPT ![c.key] = IF c.ovl THEN Unknown ELSE Effect(c.op, c.val)]
    /\ prev' = NoRecovery
    /\ UNCHANGED << rvars, xvars >>
    /\ UNCHANGED << file, synced, bufw, fclosed, fsyncEvery, state, segs,
                    nops, nfault, nopen >>

(***************************************************************************)
(* KV.Get: a copy of the table's entry, read under kv.mu.RLock.            *)
(***************************************************************************)
\* What a Get(key) may return now, by the calls that have returned and those in
\* flight: the entry the last call on the key left, or as well the entry the
\* one call in flight on it will leave; any whole entry when calls on the key
\* overlapped or failed.
KnownAfter(key) ==
    IF known[key] = Unknown THEN Results
    ELSE {known[key]}
         \cup {Effect(call[t].op, call[t].val) : t \in {u \in InFlight : call[u].key = key}}

KVGet(t, key) ==
    /\ state \in {"open", "closed"}
    /\ pc[t] = "idle"
    /\ prev' = NoRecovery
    /\ ret' = [op |-> GetOp, key |-> key, val |-> <<>>, err |-> FALSE,
               dirty |-> FALSE, out |-> MapLookup(mem, key), seg |-> 0,
               had |-> key \in DOMAIN mem]
    /\ UNCHANGED << rvars, xvars >>
    /\ UNCHANGED << file, synced, bufw, fclosed, mem, fsyncEvery, state, pc, call,
                    segs, sess, known, nops, nfault, nopen >>

(***************************************************************************)
(* KV.Close = WAL.Close: Flush, then close the file.                       *)
(***************************************************************************)
KVClose ==
    LET r == BufFlush(bufw, file, Len(bufw.buf)) IN
    /\ state = "open"
    /\ bufw' = r.bufw
    /\ file' = r.file
    /\ fclosed' = TRUE
    /\ state' = "closed"
    /\ ret' = NoRet
    /\ sess' = [sess EXCEPT !.how = "close"]
    /\ prev' = NoRecovery
    /\ UNCHANGED << rvars, xvars >>
    /\ UNCHANGED << synced, mem, fsyncEvery, pc, call, segs, known,
                    nops, nfault, nopen >>

(***************************************************************************)
(* The process stops.  Everything in memory is gone; of the file, the      *)
(* synced prefix survives and any n bytes in all (n = Len(file): the       *)
(* process was killed and the OS kept what it had been handed).  The model *)
(* cuts the file at the offsets of Cuts.                                   *)
(***************************************************************************)
Crash(n) ==
    /\ state \in {"open", "closed"}
    /\ n < Len(file) => nfault < MaxFaults
    /\ nopen < MaxOpens
    /\ n \in synced..Len(file)
    /\ CutAt(segs, n)
    /\ file' = SubSeq(file, 1, n)
    /\ bufw' = NewWriter
    /\ fclosed' = TRUE
    /\ mem' = EmptyMap
    /\ state' = "down"
    /\ pc' = [t \in Threads |-> "idle"]
    /\ call' = [t \in Threads |-> NoCall]
    /\ ret' = NoRet
    /\ segs' = TruncSegs(segs, n)
    /\ sess' = [sess EXCEPT !.how = IF n < Len(file) THEN "loss" ELSE "kill",
                            !.inflight = InFlight # {}]
    /\ known' = [k \in Keys |-> Unknown]
    /\ nfault' = IF n < Len(file) THEN nfault + 1 ELSE nfault
    /\ prev' = NoRecovery
    /\ UNCHANGED << rvars, xvars >>
    /\ UNCHANGED << synced, fsyncEvery, nops, nopen >>

\* a faulty variant: opening the file truncates it (O_TRUNC)
OpenWALTrunc(f) == <<>>

\* a faulty variant: opening the file adds a byte to it
OpenWALMark(f) == f \o <<0>>

\* OpenWAL's os.OpenFile(path, O_CREATE|O_RDWR|O_APPEND): the file's content
\* afterwards, f being its content before (empty when it did not exist)
OpenWAL(f) == f

(***************************************************************************)
(* OpenKV(path, policy): OpenWAL (O_CREATE|O_RDWR|O_APPEND: the file is    *)
(* kept as it is), then Replay into a new table.  A replay error closes    *)
(* the file again and returns no store.                                    *)
(***************************************************************************)
OpenKV(policy) ==
    /\ \/ state = "down"
       \/ state = "closed" /\ InFlight = {}
    /\ nopen < MaxOpens
    /\ nopen' = nopen + 1
    /\ bufw' = NewWriter
    /\ ret' = NoRet
    /\ file' = OpenWAL(file)
    /\ \E r \in {Replay(file', FALSE)} :
         IF r.err
         THEN /\ state' = "down"
              /\ fclosed' = TRUE
              /\ mem' = EmptyMap
              /\ known' = [k \in Keys |-> Unknown]
              /\ prev' = NoRecovery
              /\ UNCHANGED << fsyncEvery, sess >>
         ELSE /\ state' = "open"
              /\ fclosed' = FALSE
              /\ mem' = ApplyCalls(EmptyMap, r.calls, 1)
              /\ fsyncEvery' = policy
              /\ known' = [k \in Keys |-> MapLookup(mem', k)]
              /\ prev' = Recovered(sess, r.calls, mem', file')
              /\ sess' = NewSession(mem', segs, file')
    /\ UNCHANGED << rvars, xvars >>
    /\ UNCHANGED << synced, pc, call, segs, nops, nfault >>

(***************************************************************************)
(* The callers.  With faulty, the device may fail a call's write or fsync. *)
(***************************************************************************)
\* the longest file MaxOps calls can write
MaxFile == MaxOps * RecordLen(<<97>>, <<49>>)

Accepts(faulty, L) == IF faulty THEN Cuts(L) ELSE {L}

Writes(T, faulty) ==
    \/ \E t \in T, k \in Keys, v \in Vals :
          \E n \in Accepts(faulty, RecordLen(k, v)) : KVSetAppend(t, k, v, n)
    \/ \E t \in T, k \in Keys :
          \E n \in Accepts(faulty, RecordLen(k, <<>>)) : KVDelAppend(t, k, n)
    \/ \E t \in T : \E ok \in {TRUE} \cup {~faulty} : KVSync(t, ok)
    \/ \E t \in T : KVApply(t)

Reads(T) == \E t \in T, k \in Keys : KVGet(t, k)

(***************************************************************************)
(* Spec: one goroutine writes to the store; the device may fail, the       *)
(* process may stop, and the store may be opened again.                    *)
(***************************************************************************)
Next ==
    \/ Writes({1}, TRUE)
    \/ KVClose
    \/ \E n \in 0..MaxFile : Crash(n)
    \/ \E policy \in {0, 1} : OpenKV(policy)

Spec == Init /\ [][Next]_vars

\* Set/Del called on a store whose Close has returned: the file is closed and
\* accepts nothing
ClosedWrites(T) ==
    /\ state = "closed"
    /\ \/ \E t \in T, k \in Keys, v \in Vals : KVSetAppend(t, k, v, 0)
       \/ \E t \in T, k \in Keys : KVDelAppend(t, k, 0)

(***************************************************************************)
(* SpecConc: the goroutines of Threads read and write concurrently, in one *)
(* session on a device that does not fail; one of them may call Close.     *)
(***************************************************************************)
NextConc ==
    \/ Writes(Threads, FALSE)
    \/ Reads(Threads)
    \/ KVClose
    \/ ClosedWrites(Threads)

SpecConc == Init /\ [][NextConc]_vars

(***************************************************************************)
(* SpecAll: the goroutines of Threads write concurrently on a device that  *)
(* may fail a write or an fsync of goroutine 1; the process may stop in    *)
(* the middle of their calls and the store may be opened again.            *)
(***************************************************************************)
NextAll ==
    \/ Writes({1}, TRUE)
    \/ Writes(Threads \ {1}, FALSE)
    \/ \E n \in 0..MaxFile : Crash(n)
    \/ \E policy \in {0, 1} : OpenKV(policy)

SpecAll == Init /\ [][NextAll]_vars

(***************************************************************************)
(* SpecLock: Get, Set, Del and Close statement by statement, with w.mu and *)
(* kv.mu, called concurrently by the goroutines of Threads on a device     *)
(* that does not fail.  A deferred Unlock is taken together with the last  *)
(* statement of its function.                                              *)
(***************************************************************************)
\* calls started, over the whole run
LockCalls == 3

\* the return of the call of goroutine t
Return(t, err, out) ==
    /\ at' = [at EXCEPT ![t] = "idle"]
    /\ job' = [job EXCEPT ![t] = NoJob]
    /\ done' = [t |-> t, op |-> job[t].op, key |-> job[t].key, val |-> job[t].val,
                err |-> err, out |-> out]

\* the appendRecord call that holds w.mu ends
Ended(how) == [order EXCEPT ![Len(order)].st = how]

\* what the steps of SpecLock leave alone
LockFrame ==
    /\ UNCHANGED << pc, call, ret, segs, sess, prev, known, nops, nfault, nopen >>
    /\ UNCHANGED << rvars, hvars, evars, cvars, avars, wvars >>

\* a goroutine calls Set, Del, Get or Close
LCall(t, op, key, val) ==
    /\ at[t] = "idle"
    /\ ncalls < LockCalls
    /\ ncalls' = ncalls + 1
    /\ job' = [job EXCEPT ![t] = [op |-> op, key |-> key, val |-> val]]
    /\ at' = [at EXCEPT ![t] = IF op = GetOp THEN "rlock"
                               ELSE IF op = CloseOp THEN "clock" ELSE "lock"]
    /\ UNCHANGED << file, synced, bufw, fclosed, mem, fsyncEvery, state,
                    wmu, kvmu, order, done >>
    /\ LockFrame

\* a faulty variant of MutexLock: the mutex is taken although it is held
MutexLockAnyway(t) == wmu' = t

\* w.mu.Lock()
MutexLock(t) == wmu = 0 /\ wmu' = t

\* appendRecord: w.mu.Lock()
AppendLock(t) ==
    /\ at[t] = "lock"
    /\ MutexLock(t)
    /\ at' = [at EXCEPT ![t] = "hdr"]
    /\ order' = Append(order, [t |-> t, op |-> job[t].op, key |-> job[t].key,
                               val |-> job[t].val, st |-> "busy"])
    /\ UNCHANGED << file, synced, bufw, fclosed, mem, fsyncEvery, state,
                    kvmu, job, done, ncalls >>
    /\ LockFrame

\* appendRecord: one w.bufw.Write(p), the statement after it being next; an
\* error returns it, unlocking
AppendWrite(t, p, next) ==
    /\ wmu' = IF bufw.err THEN 0 ELSE wmu
    /\ bufw' = BufWrite(bufw, p)
    /\ IF bufw.err
       THEN /\ Return(t, TRUE, NotFound)
            /\ order' = Ended("failed")
       ELSE /\ at' = [at EXCEPT ![t] = next]
            /\ UNCHANGED << job, done, order >>
    /\ UNCHANGED << file, synced, fclosed, mem, fsyncEvery, state, kvmu, ncalls >>
    /\ LockFrame

\* w.bufw.Write(header[:])
WriteHeader(t) ==
    /\ at[t] = "hdr"
    /\ AppendWrite(t, Header(job[t].op, job[t].key, job[t].val), "key")

\* w.bufw.Write(key); w.bufw.Write(val) comes next only if len(val) > 0
WriteKey(t) ==
    /\ at[t] = "key"
    /\ AppendWrite(t, job[t].key, IF Len(job[t].val) > 0 THEN "val" ELSE "crc")

\* w.bufw.Write(val)
WriteVal(t) ==
    /\ at[t] = "val"
    /\ AppendWrite(t, job[t].val, "crc")

\* w.bufw.Write(crcBuf[:]), crcBuf the record's last CrcLen bytes
WriteCrc(t) ==
    /\ at[t] = "crc"
    /\ \E rec \in {Encoded[job[t].op][job[t].key][job[t].val]} :
          AppendWrite(t, SubSeq(rec, Len(rec) - CrcLen + 1, Len(rec)), "flush")

\* a faulty variant of AppendFlush: without the defer, w.mu stays locked when
\* Flush fails
AppendFlushNoDefer(t) ==
    /\ at[t] = "flush"
    /\ \E r \in {BufFlush(bufw, file, IF fclosed THEN 0 ELSE Len(bufw.buf))} :
         /\ bufw' = r.bufw
         /\ file' = r.file
         /\ wmu' = IF r.err THEN wmu ELSE 0
         /\ IF r.err
            THEN /\ Return(t, TRUE, NotFound)
                 /\ order' = Ended("failed")
            ELSE /\ at' = [at EXCEPT ![t] = IF fsyncEvery = 1 THEN "slock" ELSE "klock"]
                 /\ order' = Ended("ok")
                 /\ UNCHANGED << job, done >>
    /\ UNCHANGED << synced, fclosed, mem, fsyncEvery, state, kvmu, ncalls >>
    /\ LockFrame

\* appendRecord: return w.bufw.Flush(), and the deferred w.mu.Unlock()
AppendFlush(t) ==
    /\ at[t] = "flush"
    /\ wmu' = 0
    /\ \E r \in {BufFlush(bufw, file, IF fclosed THEN 0 ELSE Len(bufw.buf))} :
         /\ bufw' = r.bufw
         /\ file' = r.file
         /\ IF r.err
            THEN /\ Return(t, TRUE, NotFound)
                 /\ order' = Ended("failed")
            ELSE /\ at' = [at EXCEPT ![t] = IF fsyncEvery = 1 THEN "slock" ELSE "klock"]
                 /\ order' = Ended("ok")
                 /\ UNCHANGED << job, done >>
    /\ UNCHANGED << synced, fclosed, mem, fsyncEvery, state, kvmu, ncalls >>
    /\ LockFrame

\* Sync: w.mu.Lock()
SyncLock(t) ==
    /\ at[t] = "slock"
    /\ MutexLock(t)
    /\ at' = [at EXCEPT ![t] = "sync"]
    /\ UNCHANGED << file, synced, bufw, fclosed, mem, fsyncEvery, state,
                    kvmu, job, order, done, ncalls >>
    /\ LockFrame

\* Sync: w.bufw.Flush(), w.f.Sync(), and the deferred w.mu.Unlock()
SyncFsync(t) ==
    /\ at[t] = "sync"
    /\ wmu' = 0
    /\ \E r \in {BufFlush(bufw, file, IF fclosed THEN 0 ELSE Len(bufw.buf))} :
         /\ bufw' = r.bufw
         /\ file' = r.file
         /\ IF r.err \/ fclosed
            THEN /\ Return(t, TRUE, NotFound)
                 /\ UNCHANGED synced
            ELSE /\ synced' = Len(r.file)
                 /\ at' = [at EXCEPT ![t] = "klock"]
                 /\ UNCHANGED << job, done >>
    /\ UNCHANGED << fclosed, mem, fsyncEvery, state, kvmu, order, ncalls >>
    /\ LockFrame

\* Set/Del: kv.mu.Lock()
TableLock(t) ==
    /\ at[t] = "klock"
    /\ kvmu.w = 0
    /\ kvmu.r = {}
    /\ kvmu' = [kvmu EXCEPT !.w = t]
    /\ at' = [at EXCEPT ![t] = "put"]
    /\ UNCHANGED << file, synced, bufw, fclosed, mem, fsyncEvery, state,
                    wmu, job, order, done, ncalls >>
    /\ LockFrame

\* Set: kv.mem[key] = v; Del: delete(kv.mem, key); return nil, and the
\* deferred kv.mu.Unlock()
TablePut(t) ==
    /\ at[t] = "put"
    /\ mem' = IF job[t].op = opSet THEN MapPut(mem, job[t].key, job[t].val)
              ELSE MapDelete(mem, job[t].key)
    /\ kvmu' = [kvmu EXCEPT !.w = 0]
    /\ Return(t, FALSE, NotFound)
    /\ UNCHANGED << file, synced, bufw, fclosed, fsyncEvery, state, wmu, order, ncalls >>
    /\ LockFrame

\* Get: kv.mu.RLock()
GetRLock(t) ==
    /\ at[t] = "rlock"
    /\ kvmu.w = 0
    /\ kvmu' = [kvmu EXCEPT !.r = @ \cup {t}]
    /\ at' = [at EXCEPT ![t] = "read"]
    /\ UNCHANGED << file, synced, bufw, fclosed, mem, fsyncEvery, state,
                    wmu, job, order, done, ncalls >>
    /\ LockFrame

\* a faulty variant of GetRead: looking up a missing key creates its entry
GetReadCreates(t) ==
    /\ at[t] = "read"
    /\ kvmu' = [kvmu EXCEPT !.r = @ \ {t}]
    /\ Return(t, FALSE, MapLookup(mem, job[t].key))
    /\ mem' = IF job[t].key \in DOMAIN mem THEN mem ELSE MapPut(mem, job[t].key, <<>>)
    /\ UNCHANGED << file, synced, bufw, fclosed, fsyncEvery, state,
                    wmu, order, ncalls >>
    /\ LockFrame

\* Get: the lookup and the copy, and the deferred kv.mu.RUnlock()
GetRead(t) ==
    /\ at[t] = "read"
    /\ kvmu' = [kvmu EXCEPT !.r = @ \ {t}]
    /\ Return(t, FALSE, MapLookup(mem, job[t].key))
    /\ UNCHANGED << file, synced, bufw, fclosed, mem, fsyncEvery, state,
                    wmu, order, ncalls >>
    /\ LockFrame

\* WAL.Close: w.mu.Lock()
CloseLock(t) ==
    /\ at[t] = "clock"
    /\ MutexLock(t)
    /\ at' = [at EXCEPT ![t] = "close"]
    /\ UNCHANGED << file, synced, bufw, fclosed, mem, fsyncEvery, state,
                    kvmu, job, order, done, ncalls >>
    /\ LockFrame

\* WAL.Close: w.bufw.Flush(), w.f.Close(), and the deferred w.mu.Unlock();
\* closing a closed file is an error
CloseFile(t) ==
    /\ at[t] = "close"
    /\ wmu' = 0
    /\ \E r \in {BufFlush(bufw, file, IF fclosed THEN 0 ELSE Len(bufw.buf))} :
         /\ bufw' = r.bufw
         /\ file' = r.file
         /\ Return(t, r.err \/ fclosed, NotFound)
    /\ fclosed' = TRUE
    /\ state' = "closed"
    /\ UNCHANGED << synced, mem, fsyncEvery, kvmu, order, ncalls >>
    /\ LockFrame

NextLock ==
    \/ \E t \in Threads, k \in Keys, v \in Vals : LCall(t, opSet, k, v)
    \/ \E t \in Threads, k \in Keys : LCall(t, opDel, k, <<>>)
    \/ \E t \in Threads, k \in Keys : LCall(t, GetOp, k, <<>>)
    \/ \E t \in Threads : LCall(t, CloseOp, <<>>, <<>>)
    \/ \E t \in Threads : AppendLock(t)
    \/ \E t \in Threads : WriteHeader(t)
    \/ \E t \in Threads : WriteKey(t)
    \/ \E t \in Threads : WriteVal(t)
    \/ \E t \in Threads : WriteCrc(t)
    \/ \E t \in Threads : AppendFlush(t)
    \/ \E t \in Threads : SyncLock(t)
    \/ \E t \in Threads : SyncFsync(t)
    \/ \E t \in Threads : TableLock(t)
    \/ \E t \in Threads : TablePut(t)
    \/ \E t \in Threads : GetRLock(t)
    \/ \E t \in Threads : GetRead(t)
    \/ \E t \in Threads : CloseLock(t)
    \/ \E t \in Threads : CloseFile(t)

SpecLock == Init /\ [][NextLock]_vars

\* the next statement of the call goroutine t is in
Step(t) ==
    \/ AppendLock(t) \/ WriteHeader(t) \/ WriteKey(t) \/ WriteVal(t) \/ WriteCrc(t)
    \/ AppendFlush(t) \/ SyncLock(t) \/ SyncFsync(t) \/ TableLock(t) \/ TablePut(t)
    \/ GetRLock(t) \/ GetRead(t) \/ CloseLock(t) \/ CloseFile(t)

\* Fair scheduling: a goroutine that can run its next statement runs it (file
\* operations return), and a goroutine waiting for a lock that is free again
\* and again gets it (sync.Mutex and sync.RWMutex hand a lock to its waiters).
SpecLockFair == SpecLock /\ \A t \in Threads : SF_vars(Step(t))

(***************************************************************************)
(* SpecSlices: the []byte values of Get and Set as slices of arrays on the *)
(* heap.  One caller calls Set and Get on an open store whose appends      *)
(* succeed, keeps the slices it passed and was returned, and writes to     *)
(* their bytes between the calls.                                          *)
(***************************************************************************)
\* arrays allocated, over the whole run
MaxAllocs == 5

\* the length of the longest value of Vals
MaxValLen == 1

\* the bytes the caller writes into a slice it holds: "1", "2"
SliceBytes == {49, 50}

\* a faulty variant of CopySlice: the slice itself, no copy
ShareSlice(h, a) == [heap |-> h, addr |-> a]

\* v := make([]byte, len(val)); copy(v, val): a new array with the contents
\* of the array at a
CopySlice(h, a) == [heap |-> Append(h, h[a]), addr |-> Len(h) + 1]

\* the caller makes a slice val and calls Set(key, val), which returns nil
CSet(key, val) ==
    /\ Len(heap) + 2 <= MaxAllocs
    /\ \E c \in {CopySlice(Append(heap, val), Len(heap) + 1)} :
         /\ heap' = c.heap
         /\ memp' = MapPut(memp, key, c.addr)
    /\ held' = MapPut(held, Len(heap) + 1, "set")
    /\ want' = MapPut(want, key, val)
    /\ cgot' = NoGot
    /\ UNCHANGED << kvvars, rvars, hvars, evars, lvars, avars, wvars >>

\* the caller calls Get(key) and keeps the slice it returns
CGet(key) ==
    /\ IF key \notin DOMAIN memp
       THEN /\ cgot' = [NoGot EXCEPT !.key = key]
            /\ UNCHANGED << heap, held >>
       ELSE /\ Len(heap) + 1 <= MaxAllocs
            /\ \E c \in {CopySlice(heap, memp[key])} :
                 /\ heap' = c.heap
                 /\ held' = MapPut(held, c.addr, "get")
                 /\ cgot' = [key |-> key, found |-> TRUE, val |-> c.heap[c.addr],
                             addr |-> c.addr]
    /\ UNCHANGED << memp, want >>
    /\ UNCHANGED << kvvars, rvars, hvars, evars, lvars, avars, wvars >>

\* the caller writes byte b at index i of a slice it holds
CWrite(a, i, b) ==
    /\ a \in DOMAIN held
    /\ i \in 1..Len(heap[a])
    /\ heap[a][i] # b
    /\ heap' = [heap EXCEPT ![a][i] = b]
    /\ cgot' = NoGot
    /\ UNCHANGED << memp, held, want >>
    /\ UNCHANGED << kvvars, rvars, hvars, evars, lvars, avars, wvars >>

NextSlices ==
    \/ \E k \in Keys, v \in Vals : CSet(k, v)
    \/ \E k \in Keys : CGet(k)
    \/ \E a \in 1..MaxAllocs, i \in 1..MaxValLen, b \in SliceBytes : CWrite(a, i, b)

SpecSlices == Init /\ [][NextSlices]_vars

(***************************************************************************)
(* SpecAccount: the optimistic counter.  main starts the workers, each     *)
(* calls Deposit(amount) once; a step is one atomic operation on           *)
(* a.balance or a.version.  Values are far from the ends of int64.         *)
(***************************************************************************)
AccountFrame == UNCHANGED << kvvars, rvars, hvars, evars, lvars, cvars, wvars >>

\* a.Read(): a.balance.Load()
LoadBalance(w) ==
    /\ dpc[w] = "load"
    /\ bal' = [bal EXCEPT ![w] = balance]
    /\ dpc' = [dpc EXCEPT ![w] = "loadver"]
    /\ UNCHANGED << balance, version, ver >>
    /\ AccountFrame

\* a.Read(): a.version.Load()
LoadVersion(w) ==
    /\ dpc[w] = "loadver"
    /\ ver' = [ver EXCEPT ![w] = version]
    /\ dpc' = [dpc EXCEPT ![w] = "cas"]
    /\ UNCHANGED << balance, version, bal >>
    /\ AccountFrame

\* a.version.CompareAndSwap(ver, ver+1); lost: retry
CompareAndSwap(w) ==
    /\ dpc[w] = "cas"
    /\ IF version = ver[w]
       THEN /\ version' = ver[w] + 1
            /\ dpc' = [dpc EXCEPT ![w] = "store"]
       ELSE /\ dpc' = [dpc EXCEPT ![w] = "load"]
            /\ UNCHANGED version
    /\ UNCHANGED << balance, bal, ver >>
    /\ AccountFrame

\* a.balance.Store(nextBal), nextBal := bal + amount; return
StoreBalance(w) ==
    /\ dpc[w] = "store"
    /\ balance' = bal[w] + amount
    /\ dpc' = [dpc EXCEPT ![w] = "done"]
    /\ UNCHANGED << version, bal, ver >>
    /\ AccountFrame

NextAccount ==
    \/ \E w \in Workers : LoadBalance(w)
    \/ \E w \in Workers : LoadVersion(w)
    \/ \E w \in Workers : CompareAndSwap(w)
    \/ \E w \in Workers : StoreBalance(w)

SpecAccount == Init /\ [][NextAccount]_vars

(***************************************************************************)
(* SpecCow: the copy-on-write Config store.  The updaters call Update      *)
(* once each, updater u with the fn that sets c.Routes[RouteOf(u)] and     *)
(* then adds one to c.Limit; readers call Load at any time.  A step is one *)
(* atomic operation on s.p or one statement on a Config.                   *)
(***************************************************************************)
CowFrame == UNCHANGED << kvvars, rvars, hvars, evars, lvars, cvars, avars >>

\* the key updater u's fn puts into Routes, and its value
RouteOf(u) == IF u = 1 THEN "about" ELSE IF u = 2 THEN "blog" ELSE "cart"
PathOf(u) == IF u = 1 THEN "/about" ELSE IF u = 2 THEN "/blog" ELSE "/cart"

\* the Config at address a, its map by value
ConfigAt(cs, ms, a) == [Routes |-> ms[cs[a].Routes], Limit |-> cs[a].Limit]

\* s.Load(): s.p.Load()
CowLoad ==
    /\ loaded' = loaded \cup {[addr |-> sp, cfg |-> ConfigAt(configs, routemaps, sp)]}
    /\ UNCHANGED << configs, routemaps, sp, upc, uold, unext >>
    /\ CowFrame

\* old := s.p.Load()
UpdateLoad(u) ==
    /\ upc[u] = "load"
    /\ uold' = [uold EXCEPT ![u] = sp]
    /\ upc' = [upc EXCEPT ![u] = "copy"]
    /\ UNCHANGED << configs, routemaps, sp, unext, loaded >>
    /\ CowFrame

\* next := &Config{Routes: make(...), Limit: old.Limit} and the loop that
\* copies old.Routes into it
UpdateCopy(u) ==
    /\ upc[u] = "copy"
    /\ routemaps' = Append(routemaps, routemaps[configs[uold[u]].Routes])
    /\ configs' = Append(configs, [Routes |-> Len(routemaps) + 1,
                                   Limit |-> configs[uold[u]].Limit])
    /\ unext' = [unext EXCEPT ![u] = Len(configs) + 1]
    /\ upc' = [upc EXCEPT ![u] = "fnRoutes"]
    /\ UNCHANGED << sp, uold, loaded >>
    /\ CowFrame

\* fn(next), first statement: c.Routes[...] = ...
UpdateFnRoutes(u) ==
    /\ upc[u] = "fnRoutes"
    /\ routemaps' = [routemaps EXCEPT ![configs[unext[u]].Routes] =
                        MapPut(@, RouteOf(u), PathOf(u))]
    /\ upc' = [upc EXCEPT ![u] = "fnLimit"]
    /\ UNCHANGED << configs, sp, uold, unext, loaded >>
    /\ CowFrame

\* fn(next), second statement: c.Limit = ...
UpdateFnLimit(u) ==
    /\ upc[u] = "fnLimit"
    /\ configs' = [configs EXCEPT ![unext[u]].Limit = @ + 1]
    /\ upc' = [upc EXCEPT ![u] = "cas"]
    /\ UNCHANGED << routemaps, sp, uold, unext, loaded >>
    /\ CowFrame

\* a faulty variant: the pointer is stored whatever s.p holds
PointerStore(cur, old, new) == [ok |-> TRUE, p |-> new]

\* s.p.CompareAndSwap(old, next)
PointerCompareAndSwap(cur, old, new) ==
    IF cur = old THEN [ok |-> TRUE, p |-> new] ELSE [ok |-> FALSE, p |-> cur]

\* if s.p.CompareAndSwap(old, next) { return }; else retry with latest
UpdateCAS(u) ==
    /\ upc[u] = "cas"
    /\ \E r \in {PointerCompareAndSwap(sp, uold[u], unext[u])} :
         /\ sp' = r.p
         /\ upc' = [upc EXCEPT ![u] = IF r.ok THEN "done" ELSE "load"]
    /\ UNCHANGED << configs, routemaps, uold, unext, loaded >>
    /\ CowFrame

NextCow ==
    \/ CowLoad
    \/ \E u \in Updaters : UpdateLoad(u)
    \/ \E u \in Updaters : UpdateCopy(u)
    \/ \E u \in Updaters : UpdateFnRoutes(u)
    \/ \E u \in Updaters : UpdateFnLimit(u)
    \/ \E u \in Updaters : UpdateCAS(u)

SpecCow == Init /\ [][NextCow]_vars

(***************************************************************************)
(* SpecReplay: WAL.Replay on its own.  A writer appends well-formed        *)
(* records; the file is then truncated or has one bit flipped, or records  *)
(* no writer writes are put at its end; Replay reads it.                   *)
(***************************************************************************)
\* records in the log
MaxRecs == 3

RKey == <<97>>

\* the checksum of the record SET "a" = "", as a four-byte value
Crafted == ChecksumIEEE(Header(opSet, RKey, <<>>) \o RKey)

RVals == { <<49>>, <<>>, Crafted }

\* the longest file MaxRecs records make
RMaxFile == MaxRecs * RecordLen(RKey, Crafted)

\* the offset at which record i of the log starts
RECURSIVE RStart(_, _)
RStart(log, i) ==
    IF i = 1 THEN 0
    ELSE RStart(log, i - 1) + RecordLen(log[i - 1].key, log[i - 1].val)

\* the record that holds byte number i (1-based) of the undamaged file
RecAt(log, i) ==
    CHOOSE r \in 1..Len(log) :
        /\ RStart(log, r) < i
        /\ i <= RStart(log, r) + RecordLen(log[r].key, log[r].val)

\* the region of its record that byte number i lies in
RegionAt(log, i) ==
    LET r   == RecAt(log, i)
        off == i - RStart(log, r)
    IN  IF off = 1 THEN "op"
        ELSE IF off <= 5 THEN "keyLen"
        ELSE IF off <= HeaderLen THEN "valLen"
        ELSE IF off <= HeaderLen + Len(log[r].key) THEN "key"
        ELSE IF off <= HeaderLen + Len(log[r].key) + Len(log[r].val) THEN "val"
        ELSE "crc"

Pow2(k) == IF k = 0 THEN 1 ELSE IF k = 1 THEN 2 ELSE IF k = 2 THEN 4
           ELSE IF k = 3 THEN 8 ELSE IF k = 4 THEN 16 ELSE IF k = 5 THEN 32
           ELSE IF k = 6 THEN 64 ELSE 128

\* appendRecord on a healthy file: the record's bytes go to the end
RAppend(op, key, val) ==
    /\ rdmg.kind = "none"
    /\ ~rout.done
    /\ Len(rlog) < MaxRecs
    /\ rlog' = Append(rlog, [op |-> op, key |-> key, val |-> val])
    /\ rfile' = rfile \o RecordBytes(op, key, val)
    /\ UNCHANGED << rdmg, rout >>
    /\ UNCHANGED << kvvars, xvars >>

\* the file loses everything after its first n bytes
RTruncate(n) ==
    /\ rdmg.kind = "none"
    /\ ~rout.done
    /\ n < Len(rfile)
    /\ rfile' = SubSeq(rfile, 1, n)
    /\ rdmg' = [kind |-> "trunc", rec |-> RecAt(rlog, n + 1),
                region |-> IF n = RStart(rlog, RecAt(rlog, n + 1))
                           THEN "boundary" ELSE "inside"]
    /\ UNCHANGED << rlog, rout >>
    /\ UNCHANGED << kvvars, xvars >>

\* bit number bit of byte number i flips
RFlip(i, bit) ==
    /\ rdmg.kind = "none"
    /\ ~rout.done
    /\ i \in 1..Len(rfile)
    /\ rfile' = [rfile EXCEPT ![i] = XorByte(@, Pow2(bit))]
    /\ rdmg' = [kind |-> "flip", rec |-> RecAt(rlog, i), region |-> RegionAt(rlog, i)]
    /\ UNCHANGED << rlog, rout >>
    /\ UNCHANGED << kvvars, xvars >>

\* an op byte that is neither opSet nor opDel
OtherOp == 3

\* A record no Set/Del of a key of 1..2^20 bytes writes is put at the end of
\* the file, complete and with its checksum: one with another op byte or
\* with the empty key.  Any complete record may follow it.
RForge(op, key, val) ==
    /\ rdmg.kind \in {"none", "forged"}
    /\ ~rout.done
    /\ Len(rlog) < MaxRecs
    /\ rdmg.kind = "none" => op = OtherOp \/ key = <<>>
    /\ rlog' = Append(rlog, [op |-> op, key |-> key, val |-> val])
    /\ rfile' = rfile \o RecordBytes(op, key, val)
    /\ rdmg' = IF rdmg.kind = "none"
               THEN [kind |-> "forged", rec |-> Len(rlog) + 1,
                     region |-> IF key = <<>> THEN "keyLen" ELSE "op"]
               ELSE rdmg
    /\ UNCHANGED rout
    /\ UNCHANGED << kvvars, xvars >>

\* WAL.Replay with an apply callback that records its calls
RReplay ==
    /\ ~rout.done
    /\ \E r \in {Replay(rfile, FALSE)} :
         rout' = [done |-> TRUE, calls |-> r.calls, err |-> r.err]
    /\ UNCHANGED << rlog, rfile, rdmg >>
    /\ UNCHANGED << kvvars, xvars >>

\* the read of Replay that asks for byte number i (1-based) of the file:
\* the header read, or that of the key, the value or the checksum
ReadAt(log, i) ==
    IF i > RStart(log, Len(log) + 1) THEN "header"
    ELSE IF RegionAt(log, i) \in {"op", "keyLen", "valLen"} THEN "header"
    ELSE RegionAt(log, i)

\* WAL.Replay, called by OpenKV, on a device that delivers the first n bytes
\* of the file and then fails the read: OpenKV returns Replay's error as it is
RReplayIOErr(n) ==
    /\ rdmg.kind = "none"
    /\ ~rout.done
    /\ n <= Len(rfile)
    /\ \E r \in {Replay(SubSeq(rfile, 1, n), TRUE)} :
         rout' = [done |-> TRUE, calls |-> r.calls, err |-> r.err]
    /\ rdmg' = [kind |-> "ioerr",
                rec |-> IF n < Len(rfile) THEN RecAt(rlog, n + 1) ELSE Len(rlog) + 1,
                region |-> ReadAt(rlog, n + 1)]
    /\ UNCHANGED << rlog, rfile >>
    /\ UNCHANGED << kvvars, xvars >>

NextReplay ==
    \/ \E v \in RVals : RAppend(opSet, RKey, v)
    \/ RAppend(opDel, RKey, <<>>)
    \/ \E n \in 0..RMaxFile : RTruncate(n)
    \/ \E i \in 1..RMaxFile, bit \in 0..7 : RFlip(i, bit)
    \/ \E op \in {opSet, opDel, OtherOp}, k \in {RKey, <<>>}, v \in {<<49>>, <<>>} :
          RForge(op, k, v)
    \/ RReplay
    \/ \E n \in 0..RMaxFile : RReplayIOErr(n)

InitReplay == Init /\ fsyncEvery = 0

SpecReplay == InitReplay /\ [][NextReplay]_vars

(***************************************************************************)
(* The consistent hashing ring of the proxy.  A uint32 is kept as the pair *)
(* of its high and low 16 bits.                                            *)
(***************************************************************************)
\* hash/fnv New32a: offset basis 0x811c9dc5 and prime 0x01000193 = 2^24 + 403,
\* on the four little-endian bytes of the hash
FnvOffset == << 197, 157, 28, 129 >>
FnvPrimeLow == 403

\* one byte b hashed into h: h = (h XOR b) * prime mod 2^32
FnvByte(h, b) ==
    LET x0 == XorByte(h[1], b)
        t0 == x0 * FnvPrimeLow
        t1 == h[2] * FnvPrimeLow + t0 \div 256
        t2 == h[3] * FnvPrimeLow + t1 \div 256
        t3 == h[4] * FnvPrimeLow + t2 \div 256 + x0
    IN  << t0 % 256, t1 % 256, t2 % 256, t3 % 256 >>

RECURSIVE FnvWrite(_, _, _)
FnvWrite(h, s, i) ==
    IF i > Len(s) THEN h
    ELSE LET next == FnvByte(h, s[i])
         IN  IF next[1] \in Byte THEN FnvWrite(next, s, i + 1) ELSE next

\* hash32(s): h.Write([]byte(s)); h.Sum32()
hash32(s) ==
    LET h == FnvWrite(FnvOffset, s, 1)
    IN  << 256 * h[4] + h[3], 256 * h[2] + h[1] >>

\* a < b on uint32
U32Less(a, b) == a[1] < b[1] \/ (a[1] = b[1] /\ a[2] < b[2])

\* fmt.Sprintf("%s#%d", nodeAddr, i), for i of one decimal digit
VNodeLabel(nodeAddr, i) == nodeAddr \o << 35, 48 + i >>

\* virtual nodes per node
MaxReplicas == 3

\* the servers: "127.0.0.1:9524", "localhost:41251" and "127.0.0.1:6381"
Nodes ==
    { << 49, 50, 55, 46, 48, 46, 48, 46, 49, 58, 57, 53, 50, 52 >>,
      << 108, 111, 99, 97, 108, 104, 111, 115, 116, 58, 52, 49, 50, 53, 49 >>,
      << 49, 50, 55, 46, 48, 46, 48, 46, 49, 58, 54, 51, 56, 49 >> }

\* the keys clients route: "k36", "k27" and "k0"
RingKeys == { << 107, 51, 54 >>, << 107, 50, 55 >>, << 107, 48 >> }

\* the hashes of the virtual nodes and of the keys, computed once
VNodeHash ==
    [n \in Nodes |-> [i \in 0..(MaxReplicas - 1) |-> hash32(VNodeLabel(n, i))]]

KeyHash == [k \in RingKeys |-> hash32(k)]

\* sort.Slice(r.keys, less): the hashes of the set S in ascending order
RECURSIVE SortU32(_)
SortU32(S) ==
    IF S = {} THEN <<>>
    ELSE LET m == CHOOSE x \in S : \A y \in S \ {x} : U32Less(x, y)
         IN  <<m>> \o SortU32(S \ {m})

SeqRange(q) == { q[i] : i \in 1..Len(q) }

\* the loop of Add over the replicas i..replicas-1: a hash that is already
\* in lookup is skipped
RECURSIVE AddReplicas(_, _, _, _)
AddReplicas(ring, nodeAddr, i, n) ==
    IF i >= n THEN ring
    ELSE LET h == VNodeHash[nodeAddr][i]
         IN  IF h \in DOMAIN ring.lookup
             THEN AddReplicas(ring, nodeAddr, i + 1, n)
             ELSE AddReplicas([lookup |-> MapPut(ring.lookup, h, nodeAddr),
                               keys |-> Append(ring.keys, h)],
                              nodeAddr, i + 1, n)

\* the loop of Remove: delete(r.lookup, h) for every replica of nodeAddr
RECURSIVE RemoveReplicas(_, _, _, _)
RemoveReplicas(lk, nodeAddr, i, n) ==
    IF i >= n THEN lk
    ELSE RemoveReplicas(MapDelete(lk, VNodeHash[nodeAddr][i]), nodeAddr, i + 1, n)

\* the keys slice rebuilt: the hashes still in lookup, in their order
RECURSIVE RebuildKeys(_, _)
RebuildKeys(ks, lk) ==
    IF ks = <<>> THEN <<>>
    ELSE (IF Head(ks) \in DOMAIN lk THEN << Head(ks) >> ELSE <<>>)
         \o RebuildKeys(Tail(ks), lk)

\* sort.Search(len(ks), func(i) { return ks[i] >= h }), 1-based: the first
\* index whose hash is not below h, Len(ks) + 1 when there is none
Search(ks, h) ==
    IF \E i \in 1..Len(ks) : ~U32Less(ks[i], h)
    THEN CHOOSE i \in 1..Len(ks) :
            /\ ~U32Less(ks[i], h)
            /\ \A j \in 1..(i - 1) : U32Less(ks[j], h)
    ELSE Len(ks) + 1

\* HashRing.Get on the ring (ks, lk)
RingRoute(ks, lk, key) ==
    IF Len(ks) = 0 THEN NoRoute
    ELSE LET i == Search(ks, KeyHash[key])
         IN  [addr |-> lk[ks[IF i = Len(ks) + 1 THEN 1 ELSE i]], ok |-> TRUE]

\* the nodes that own a virtual node
RingNodes == { lookup[h] : h \in DOMAIN lookup }

\* HashRing.Add(nodeAddr)
RingAdd(nodeAddr) ==
    /\ \E ring \in {AddReplicas([lookup |-> lookup, keys |-> keys], nodeAddr, 0, replicas)} :
         /\ lookup' = ring.lookup
         /\ keys' = SortU32(SeqRange(ring.keys))
    /\ removed' = NoNode
    /\ UNCHANGED << replicas, routed, got >>
    /\ UNCHANGED << kvvars, rvars, evars, zvars >>

\* HashRing.Remove(nodeAddr)
RingRemove(nodeAddr) ==
    /\ lookup' = RemoveReplicas(lookup, nodeAddr, 0, replicas)
    /\ keys' = RebuildKeys(keys, lookup')
    /\ routed' = [k \in RingKeys |-> RingRoute(keys, lookup, k)]
    /\ removed' = IF nodeAddr \in RingNodes THEN nodeAddr ELSE NoNode
    /\ UNCHANGED << replicas, got >>
    /\ UNCHANGED << kvvars, rvars, evars, zvars >>

\* HashRing.Get(key)
RingGet(key) ==
    /\ got' = RingRoute(keys, lookup, key)
    /\ removed' = NoNode
    /\ UNCHANGED << keys, lookup, replicas, routed >>
    /\ UNCHANGED << kvvars, rvars, evars, zvars >>

NextRing ==
    \/ \E n \in Nodes : RingAdd(n)
    \/ \E n \in Nodes : RingRemove(n)
    \/ \E k \in RingKeys : RingGet(k)

InitRing ==
    /\ KVInit /\ fsyncEvery = 0
    /\ \E n \in 1..MaxReplicas : NewHashRing(n)
    /\ NewStore(0, 0, NewLRUEvictor)

SpecRing == InitRing /\ [][NextRing]_vars

(***************************************************************************)
(* The eviction policies.  An evictor holds *lib.Entry pointers; the model *)
(* holds the entry's key, by which the store looks the entry up again.     *)
(***************************************************************************)
\* Victim() returned nil
NoVictim == << 0 >>

\* q without its element k
SeqWithout(q, k) == SelectSeq(q, LAMBDA x : x # k)

LRUOnAdd(e, k) ==
    IF k \in e.nodes THEN [e EXCEPT !.ll = <<k>> \o SeqWithout(e.ll, k)]
    ELSE [e EXCEPT !.ll = <<k>> \o e.ll, !.nodes = @ \cup {k}]

\* touch: a key without a node is added
LRUTouch(e, k) ==
    IF k \in e.nodes THEN [e EXCEPT !.ll = <<k>> \o SeqWithout(e.ll, k)]
    ELSE LRUOnAdd(e, k)

LRUOnRemove(e, k) ==
    IF k \notin e.nodes THEN e
    ELSE [e EXCEPT !.ll = SeqWithout(e.ll, k), !.nodes = @ \ {k}]

\* a faulty variant: the front of the list
LRUVictimFront(e) == IF e.ll = <<>> THEN {NoVictim} ELSE {e.ll[1]}

\* Victim: the back of the list, nil when the list is empty
LRUVictim(e) == IF e.ll = <<>> THEN {NoVictim} ELSE {e.ll[Len(e.ll)]}

\* --- LFUEvictor: buckets, freq -> list of keys (front = most recently used);
\* items, key -> freq; minFreq; hang, a call is in a loop that never ends
NewLFUEvictor ==
    [name |-> "LFU", buckets |-> EmptyMap, items |-> EmptyMap, minFreq |-> 0,
     hang |-> FALSE]

\* buckets with k pushed to the front of the list of freq f (bucket(f) makes
\* the list when there is none)
LFUPush(b, f, k) == MapPut(b, f, <<k>> \o (IF f \in DOMAIN b THEN b[f] ELSE <<>>))

\* buckets with k removed from the list of freq f, the list deleted when it
\* is left empty
LFUUnlink(b, f, k) ==
    IF f \notin DOMAIN b THEN b
    ELSE IF SeqWithout(b[f], k) = <<>> THEN MapDelete(b, f)
    ELSE MapPut(b, f, SeqWithout(b[f], k))

\* advanceMinFreq: for f := e.minFreq; ; f++ until a bucket with entries is
\* found.  f is a uint64: past its largest value it goes on from 0, so the
\* loop ends exactly when some bucket has entries.
LFUAdvanceMinFreq(e) ==
    IF DOMAIN e.items = {} THEN [e EXCEPT !.minFreq = 0]
    ELSE IF \E f \in DOMAIN e.buckets : f >= e.minFreq
    THEN [e EXCEPT !.minFreq =
             CHOOSE f \in DOMAIN e.buckets :
                 f >= e.minFreq /\ \A g \in DOMAIN e.buckets : g >= e.minFreq => f <= g]
    ELSE IF DOMAIN e.buckets # {}
    THEN [e EXCEPT !.minFreq =
             CHOOSE f \in DOMAIN e.buckets : \A g \in DOMAIN e.buckets : f <= g]
    ELSE [e EXCEPT !.hang = TRUE]

LFUOnAddNew(e, k) ==
    [e EXCEPT !.buckets = LFUPush(e.buckets, 1, k),
              !.items = MapPut(e.items, k, 1),
              !.minFreq = IF e.minFreq = 0 \/ e.minFreq > 1 THEN 1 ELSE @]

\* bump of a key that has an item
LFUBumpItem(e, k) ==
    LET oldFreq == e.items[k]
        unlinked == LFUUnlink(e.buckets, oldFreq, k)
    IN  [e EXCEPT !.buckets = LFUPush(unlinked, oldFreq + 1, k),
                  !.items = MapPut(e.items, k, oldFreq + 1),
                  !.minFreq = IF oldFreq \in DOMAIN e.buckets
                                 /\ oldFreq \notin DOMAIN unlinked
                                 /\ e.minFreq = oldFreq
                              THEN oldFreq + 1 ELSE @]

\* OnAdd of a key that has an item is an update; bump of one that has none
\* is an add
LFUOnAdd(e, k) == IF k \in DOMAIN e.items THEN LFUBumpItem(e, k) ELSE LFUOnAddNew(e, k)

LFUBump(e, k) == LFUOnAdd(e, k)

LFUOnRemove(e, k) ==
    IF k \notin DOMAIN e.items THEN e
    ELSE
      LET f        == e.items[k]
          unlinked == [e EXCEPT !.buckets = LFUUnlink(e.buckets, f, k)]
          advanced == IF f \in DOMAIN e.buckets /\ f \notin DOMAIN unlinked.buckets
                         /\ e.minFreq = f
                      THEN LFUAdvanceMinFreq(unlinked) ELSE unlinked
      IN  IF advanced.hang THEN advanced
          ELSE [advanced EXCEPT !.items = MapDelete(e.items, k),
                                !.minFreq = IF DOMAIN e.items = {k} THEN 0 ELSE @]

\* Victim: the back of the bucket of minFreq; the evictor after the call
\* (advanceMinFreq may have run) comes with it
LFUVictimOf(e) ==
    IF e.minFreq = 0 THEN [ev |-> e, v |-> NoVictim]
    ELSE IF e.minFreq \in DOMAIN e.buckets
    THEN [ev |-> e, v |-> e.buckets[e.minFreq][Len(e.buckets[e.minFreq])]]
    ELSE LET a == LFUAdvanceMinFreq(e)
         IN  IF a.hang \/ a.minFreq \notin DOMAIN a.buckets
             THEN [ev |-> a, v |-> NoVictim]
             ELSE [ev |-> a, v |-> a.buckets[a.minFreq][Len(a.buckets[a.minFreq])]]

\* --- RandomEvictor: keys; idx, key -> index in keys (0-based); ptr, the keys
\* that have an entry pointer
NewRandomEvictor == [name |-> "RANDOM", keys |-> <<>>, idx |-> EmptyMap, ptr |-> {}]

RandomOnAdd(e, k) ==
    IF k \in DOMAIN e.idx THEN [e EXCEPT !.ptr = @ \cup {k}]
    ELSE [e EXCEPT !.idx = MapPut(e.idx, k, Len(e.keys)),
                   !.keys = Append(e.keys, k),
                   !.ptr = @ \cup {k}]

RandomTouch(e, k) == [e EXCEPT !.ptr = @ \cup {k}]

\* swap-delete: the last key takes the place of the one removed
RandomOnRemove(e, k) ==
    IF k \notin DOMAIN e.idx THEN e
    ELSE
      LET i       == e.idx[k]
          last    == Len(e.keys) - 1
          lastKey == e.keys[last + 1]
          moved   == [e.keys EXCEPT ![i + 1] = lastKey]
      IN  [e EXCEPT !.keys = SubSeq(moved, 1, last),
                    !.idx = MapDelete(MapPut(e.idx, lastKey, i), k),
                    !.ptr = @ \ {k}]

\* Victim: e.ptr[e.keys[rnd.Intn(len)]], nil for a key without a pointer
RandomVictim(e) ==
    IF e.keys = <<>> THEN {NoVictim}
    ELSE { IF e.keys[i] \in e.ptr THEN e.keys[i] ELSE NoVictim : i \in 1..Len(e.keys) }

\* --- the Evictor interface
OnAdd(e, k) ==
    IF e.name = "LRU" THEN LRUOnAdd(e, k)
    ELSE IF e.name = "LFU" THEN LFUOnAdd(e, k)
    ELSE RandomOnAdd(e, k)

OnGet(e, k) ==
    IF e.name = "LRU" THEN LRUTouch(e, k)
    ELSE IF e.name = "LFU" THEN LFUBump(e, k)
    ELSE RandomTouch(e, k)

OnUpdate(e, k) == OnGet(e, k)

OnRemove(e, k) ==
    IF e.name = "LRU" THEN LRUOnRemove(e, k)
    ELSE IF e.name = "LFU" THEN LFUOnRemove(e, k)
    ELSE RandomOnRemove(e, k)

\* a faulty variant: no evictor ever names a victim
VictimNone(e) == {[ev |-> e, v |-> NoVictim]}

\* Victim(): the entries the call may return, each with the evictor after it
Victim(e) ==
    IF e.name = "LRU" THEN {[ev |-> e, v |-> k] : k \in LRUVictim(e)}
    ELSE IF e.name = "LFU" THEN {LFUVictimOf(e)}
    ELSE {[ev |-> e, v |-> k] : k \in RandomVictim(e)}

Hung(e) == e.name = "LFU" /\ e.hang

(***************************************************************************)
(* The eviction store.  A store in the middle of a call is the record of   *)
(* its items, keysUsed, bytesUsed and evictor (ev).                        *)
(***************************************************************************)
\* limits NewStore is given: maxKeys in 0..MaxKeysLimit, maxBytes 0, the
\* size of the largest entry but one, or MaxBytesLimit
MaxKeysLimit == 2
MaxBytesLimit == 5
\* the frequency an LFU item may reach
MaxFreq == 3

\* keys callers pass: "a", "b", "cc" and the empty key
EvKeys == { <<97>>, <<98>>, <<99, 99>>, <<>> }
\* values callers pass: "1" and "22"
EvVals == { <<49>>, <<50, 50>> }

\* approxEntryBytes
approxEntryBytes(key, val) == Len(key) + Len(val)

\* the condition of the loop of evictIfNeededLocked
OverLimit(st) ==
    \/ maxKeys > 0 /\ st.keysUsed > maxKeys
    \/ maxBytes > 0 /\ st.bytesUsed > maxBytes

\* a faulty variant: the evictor is not told
removeEntryLockedSilent(st, k) ==
    [items     |-> MapDelete(st.items, k),
     keysUsed  |-> st.keysUsed - 1,
     bytesUsed |-> st.bytesUsed - st.items[k].Bytes,
     ev        |-> st.ev,
     evicted   |-> st.evicted]

\* removeEntryLocked(e), e the entry of key k
removeEntryLocked(st, k) ==
    [items     |-> MapDelete(st.items, k),
     keysUsed  |-> st.keysUsed - 1,
     bytesUsed |-> st.bytesUsed - st.items[k].Bytes,
     ev        |-> OnRemove(st.ev, k),
     evicted   |-> st.evicted]

\* evictIfNeededLocked: the stores the loop may end with (the Random evictor
\* picks its victims at random), a store whose evictor hangs among them
RECURSIVE evictIfNeededLocked(_)
evictIfNeededLocked(st) ==
    IF ~OverLimit(st) THEN {st}
    ELSE UNION {
        IF Hung(c.ev) \/ c.v = NoVictim THEN {[st EXCEPT !.ev = c.ev]}
        ELSE IF c.v \notin DOMAIN st.items
        THEN (IF OnRemove(c.ev, c.v) = st.ev
              THEN {[st EXCEPT !.ev = [name |-> "LFU", hang |-> TRUE]]}
              ELSE evictIfNeededLocked([st EXCEPT !.ev = OnRemove(c.ev, c.v)]))
        ELSE LET r == removeEntryLocked([st EXCEPT !.ev = c.ev], c.v)
             IN  IF Hung(r.ev) THEN {r}
                 ELSE evictIfNeededLocked([r EXCEPT !.evicted = @ + 1])
        : c \in Victim(st.ev) }

\* ranks brought back to 1..n, their order kept, for the keys of K
Ranked(lu, K) ==
    [k \in K \cap DOMAIN lu |->
        Cardinality({j \in K \cap DOMAIN lu : lu[j] <= lu[k]})]

\* the call for key k is the most recent one
Used(lu, k) == MapPut(lu, k, Cardinality(DOMAIN lu) + 1)

\* the store as the variables hold it
Store == [items |-> items, keysUsed |-> keysUsed, bytesUsed |-> bytesUsed,
          ev |-> evictor, evicted |-> 0]

\* the frequency of key stays within MaxFreq when it is bumped
CanBump(key) ==
    evictor.name = "LFU" /\ key \in DOMAIN evictor.items => evictor.items[key] < MaxFreq

\* Store.Set(key, val)
StoreSet(key, val) ==
    LET entryBytes == approxEntryBytes(key, val)
        updated == [Store EXCEPT
                      !.items = MapPut(items, key, [Value |-> val, Bytes |-> entryBytes]),
                      !.bytesUsed = @ + (entryBytes - items[key].Bytes),
                      !.ev = OnUpdate(evictor, key)]
        inserted == [Store EXCEPT
                      !.items = MapPut(items, key, [Value |-> val, Bytes |-> entryBytes]),
                      !.keysUsed = @ + 1,
                      !.bytesUsed = @ + entryBytes,
                      !.ev = OnAdd(evictor, key)]
    IN
    /\ ~stuck
    /\ CanBump(key)
    /\ IF key = <<>> \/ (maxBytes > 0 /\ entryBytes > maxBytes)
       THEN /\ eret' = [NoEvRet EXCEPT !.op = "set", !.key = key, !.val = val,
                                       !.err = TRUE]
            /\ UNCHANGED << items, keysUsed, bytesUsed, evictor, stuck, lastUse >>
       ELSE \E st \in evictIfNeededLocked(IF key \in DOMAIN items THEN updated
                                          ELSE inserted) :
              /\ items' = st.items
              /\ lastUse' = Ranked(Used(lastUse, key), DOMAIN st.items)
              /\ keysUsed' = st.keysUsed
              /\ bytesUsed' = st.bytesUsed
              /\ evictor' = st.ev
              /\ stuck' = Hung(st.ev)
              /\ eret' = IF Hung(st.ev) THEN NoEvRet
                         ELSE [NoEvRet EXCEPT !.op = "set", !.key = key, !.val = val,
                                              !.evicted = st.evicted]
    /\ UNCHANGED << maxKeys, maxBytes >>
    /\ UNCHANGED << kvvars, rvars, hvars, zvars >>

\* Store.Get(key)
StoreGet(key) ==
    /\ ~stuck
    /\ CanBump(key)
    /\ IF key \notin DOMAIN items
       THEN /\ eret' = [NoEvRet EXCEPT !.op = "get", !.key = key]
            /\ UNCHANGED << evictor, lastUse >>
       ELSE /\ evictor' = OnGet(evictor, key)
            /\ lastUse' = Ranked(Used(lastUse, key), DOMAIN items)
            /\ eret' = [NoEvRet EXCEPT !.op = "get", !.key = key, !.found = TRUE,
                                       !.out = items[key].Value]
    /\ UNCHANGED << items, maxKeys, maxBytes, keysUsed, bytesUsed, stuck >>
    /\ UNCHANGED << kvvars, rvars, hvars, zvars >>

\* Store.Del(key)
StoreDel(key) ==
    /\ ~stuck
    /\ IF key \notin DOMAIN items
       THEN /\ eret' = [NoEvRet EXCEPT !.op = "del", !.key = key]
            /\ UNCHANGED << items, keysUsed, bytesUsed, evictor, stuck, lastUse >>
       ELSE \E st \in {removeEntryLocked(Store, key)} :
              /\ items' = st.items
              /\ lastUse' = Ranked(lastUse, DOMAIN st.items)
              /\ keysUsed' = st.keysUsed
              /\ bytesUsed' = st.bytesUsed
              /\ evictor' = st.ev
              /\ stuck' = Hung(st.ev)
              /\ eret' = IF Hung(st.ev) THEN NoEvRet
                         ELSE [NoEvRet EXCEPT !.op = "del", !.key = key, !.found = TRUE]
    /\ UNCHANGED << maxKeys, maxBytes >>
    /\ UNCHANGED << kvvars, rvars, hvars, zvars >>

NextEvict ==
    \/ \E k \in EvKeys, v \in EvVals : StoreSet(k, v)
    \/ \E k \in EvKeys : StoreGet(k)
    \/ \E k \in EvKeys : StoreDel(k)

InitEvict ==
    /\ KVInit /\ fsyncEvery = 0
    /\ NewHashRing(DefaultReplicas)
    /\ \E mk \in 0..MaxKeysLimit, mb \in {0, 3, MaxBytesLimit},
          ev \in {NewLRUEvictor, NewLFUEvictor, NewRandomEvictor} :
          NewStore(mk, mb, ev)

SpecEvict == InitEvict /\ [][NextEvict]_vars

(***************************************************************************)
(* The claims.                                                             *)
(***************************************************************************)
\* the OpenKV just returned followed a session that ran on a fresh store, in
\* which every call returned success and had a non-empty key
AfterCleanSession ==
    /\ prev.valid
    /\ prev.fresh
    /\ ~prev.failed
    /\ ~prev.badkey
    /\ ~prev.inflight

\* C1: after N successful Set/Del calls with non-empty keys, issued one after
\* another against a fresh store, closing the store or stopping its process
\* (the OS keeping the bytes it was handed) and reopening it yields the table
\* that applying the N operations in order to an empty map yields.
C1_CrashConsistency ==
    AfterCleanSession /\ prev.how \in {"close", "kill"} => prev.same

\* C1's case: three calls, the last a Set that overwrites, the process killed
C1_Witness ==
    /\ AfterCleanSession
    /\ prev.how = "kill"
    /\ prev.same
    /\ Len(prev.calls) = 3
    /\ MapLookup(mem, <<97>>) = Found(<<50>>)

\* the effect of the last record appended for key k, none appended: not found
RECURSIVE LastEffect(_, _)
LastEffect(sg, k) ==
    IF sg = <<>> THEN NotFound
    ELSE IF sg[Len(sg)].key = k /\ Whole(sg[Len(sg)])
    THEN Effect(sg[Len(sg)].op, sg[Len(sg)].val)
    ELSE LastEffect(SubSeq(sg, 1, Len(sg) - 1), k)

\* C2: once all of the concurrent Set/Del calls have returned, each with
\* success, the table's entry for each key is the effect of the last record
\* appended to the log for it.
C2_LogOrderIsTableOrder ==
    InFlight = {} /\ ~sess.failed
        => \A k \in Keys : MapLookup(mem, k) = LastEffect(segs, k)

\* C3: under policy 1 on a fresh store, a Set(k, v) that returned success, with
\* no Set/Del on k started after it, is in the table of the store reopened
\* after a crash that loses every byte not synced.
C3_AckedSetSurvivesCrash ==
    prev.valid /\ prev.fresh /\ prev.how \in {"kill", "loss"} => prev.ackok

\* C4: a store opened on a log that ends in a torn tail, and closed after calls
\* that all returned success, reopens with the effects of those calls.
C4_WritesAfterTornTail ==
    prev.valid /\ prev.torn /\ ~prev.failed /\ ~prev.badkey /\ prev.how = "close"
        => prev.same

\* C5: a session in which a Set/Del returned an error, closed and reopened, has
\* the table of its successful calls alone: the failed call left no record.
C5_FailedCallLeavesNoRecord ==
    prev.valid /\ prev.failed /\ ~prev.torn /\ ~prev.badkey /\ prev.how = "close"
        => prev.same

\* C6: a Set/Del whose append or policy-1 sync fails returns the error and
\* leaves the table exactly as it was when the call started.
C6_FailureLeavesTable ==
    ret.err => ~ret.dirty

\* C6's case: the sync of an appended record failed, and the key is not in the table
C6_Witness ==
    /\ ret.err
    /\ ret.op = opSet
    /\ ret.seg > 0
    /\ MapLookup(mem, ret.key) = NotFound

\* C7: a well-formed log truncated strictly inside its last record replays as
\* its first n-1 records, and Replay returns no error.
C7_TornTailTolerance ==
    rout.done /\ rdmg.kind = "trunc" /\ rdmg.rec = Len(rlog) /\ rdmg.region = "inside"
        => ~rout.err /\ rout.calls = SubSeq(rlog, 1, Len(rlog) - 1)

\* C7's case: two whole records and Stray bytes of the third
C7_Witness ==
    /\ rout.done
    /\ rdmg.kind = "trunc"
    /\ Len(rlog) = 3
    /\ Len(rfile) = RStart(rlog, 3) + Stray
    /\ ~rout.err
    /\ rout.calls = SubSeq(rlog, 1, 2)

\* replay stopped at the damaged record: those before it applied, no error
StopsAtDamage ==
    ~rout.err /\ rout.calls = SubSeq(rlog, 1, rdmg.rec - 1)

\* C8 as stated: one bit flipped anywhere in a record's header, key or value
\* makes replay stop at that record.
C8_AnyFlipStopsReplay ==
    rout.done /\ rdmg.kind = "flip" /\ rdmg.region # "crc" => StopsAtDamage

\* C8: one bit flipped in a record's op byte, key or value makes replay stop at
\* that record; one flipped in keyLen or valLen leaves the records before it
\* applied and no error, and what replay then decodes is decided by the bytes
\* the new lengths frame.
C8_FlipStopsReplay ==
    rout.done /\ rdmg.kind = "flip" =>
        /\ rdmg.region \in {"op", "key", "val"} => StopsAtDamage
        /\ rdmg.region \in {"keyLen", "valLen"} =>
              /\ ~rout.err
              /\ Len(rout.calls) >= rdmg.rec - 1
              /\ SubSeq(rout.calls, 1, rdmg.rec - 1) = SubSeq(rlog, 1, rdmg.rec - 1)

\* C8's case: a bit of the second record's value flipped, in a log of three
C8_Witness ==
    /\ rout.done
    /\ rdmg.kind = "flip"
    /\ rdmg.region = "val"
    /\ rdmg.rec = 2
    /\ Len(rlog) = 3
    /\ rout.calls = SubSeq(rlog, 1, 1)

\* C9: a Get(k) returns the entry the last Set/Del on k left when that call has
\* returned and none overlapped or followed it; racing the one call in flight
\* on k it returns the old entry or the new one, whole.
C9_GetAfterSet ==
    ret.op = GetOp => ret.out \in KnownAfter(ret.key)

\* C9's case: Set("a", "2") has returned, nothing on "a" is in flight, Get("a")
C9_Witness ==
    /\ ret.op = GetOp
    /\ ret.key = <<97>>
    /\ known[<<97>>] = Found(<<50>>)
    /\ \A t \in InFlight : call[t].key # <<97>>
    /\ ret.out = Found(<<50>>)

\* the offset at which record i of segs starts in the file
RECURSIVE SegStart(_, _)
SegStart(sg, i) == IF i = 1 THEN 0 ELSE SegStart(sg, i - 1) + sg[i - 1].n

\* C10: a Set with the empty key returns success, having appended a record
\* whose keyLen is 0 and updated the table; the replay of the next OpenKV
\* applies the records before the first record with an empty key (or cut
\* short), and none from it on.
C10_EmptyKey ==
    /\ ret.op = opSet /\ ret.key = <<>> /\ ~ret.err =>
          /\ MapLookup(mem, <<>>) = Found(ret.val)
          /\ segs[ret.seg] = Seg(opSet, <<>>, ret.val)
          /\ SubSeq(file, SegStart(segs, ret.seg) + 2, SegStart(segs, ret.seg) + 5)
                = <<0, 0, 0, 0>>
    /\ prev.valid => prev.calls = GoodPrefix(segs)

\* C10's case: three successful calls, the second a Set with the empty key;
\* the reopened store has the first alone
C10_Witness ==
    /\ prev.valid
    /\ prev.badkey
    /\ ~prev.failed
    /\ Len(segs) = 3
    /\ \A i \in 1..3 : Whole(segs[i])
    /\ segs[1].key # <<>>
    /\ segs[2].key = <<>>
    /\ segs[2].op = opSet
    /\ Len(prev.calls) = 1

\* C11: a device failure at any read of replay, be it of the header, the key,
\* the value or the checksum, makes Replay return the error, which OpenKV
\* returns instead of a store.
C11_ReplayIOFailureReported ==
    rout.done /\ rdmg.kind = "ioerr" => rout.err

\* the Set/Del that just returned success left its whole record in the file
\* and nothing in the write buffer
RecordHandedOver ==
    ret.op \in {opSet, opDel} /\ ~ret.err =>
        /\ bufw.buf = <<>>
        /\ ret.seg \in 1..Len(segs)
        /\ segs[ret.seg] = Seg(ret.op, ret.key, ret.val)
        /\ SubSeq(file, SegStart(segs, ret.seg) + 1,
                  SegStart(segs, ret.seg) + RecordLen(ret.key, ret.val))
              = RecordBytes(ret.op, ret.key, ret.val)

\* C12: under either policy, when a Set/Del (with a key of 1..2^20 bytes)
\* returns success its complete record has been handed to the OS and none of
\* it is left in the write buffer, so that a store whose calls all returned
\* success, killed with no call in flight and reopened, has their effects.
C12_AckedRecordFlushed ==
    /\ RecordHandedOver
    /\ prev.valid /\ prev.how = "kill" /\ ~prev.failed /\ ~prev.inflight
           /\ (\A i \in 1..Len(segs) : Whole(segs[i]) => segs[i].key # <<>>)
          => prev.same

\* C13: a record the writer wrote for a SET or DEL with a key of 1..2^20 bytes
\* (the value of a DEL empty) is decoded by replay into the same op, key and
\* value: an undamaged log replays as the calls that wrote it.
C13_RoundTrip ==
    rout.done /\ rdmg.kind = "none" => ~rout.err /\ rout.calls = rlog

\* C13's case: a SET of a four-byte value, a DEL and a SET of the empty value
C13_Witness ==
    /\ rout.done
    /\ rdmg.kind = "none"
    /\ rlog = << [op |-> opSet, key |-> RKey, val |-> Crafted],
                 [op |-> opDel, key |-> RKey, val |-> <<>>],
                 [op |-> opSet, key |-> RKey, val |-> <<>>] >>
    /\ rout.calls = rlog

\* C14: a store reopened after a session in which no Set/Del was called (the
\* session closed, or its process killed) finds the log file byte for byte
\* as that session found it and rebuilds the same table.
C14_ReplayIdempotent ==
    prev.valid /\ prev.idle /\ prev.how \in {"close", "kill"}
        => prev.filesame /\ prev.same

\* C14's case: the log holds SET "a" = "1"; the store is opened, closed and
\* opened again
C14_Witness ==
    /\ prev.valid
    /\ prev.idle
    /\ prev.how = "close"
    /\ ~prev.fresh
    /\ nopen = 2
    /\ MapLookup(mem, <<97>>) = Found(<<49>>)
    /\ prev.filesame

\* C15: Closed is terminal: once Close has returned, no Get returns an entry
\* of the table (and no Set/Del call made from then on returns success).
C15_ClosedIsTerminal ==
    state = "closed" /\ ret.op = GetOp => ~ret.out.found

\* C16: a Del(k) of a key that is not in the table returns no error (on an
\* open store whose device has not failed) and leaves the table as it was;
\* a store that ended a session with Del(k); Del(k) has no entry for k, now
\* and after it is reopened, as after one Del(k).
C16_DelIdempotent ==
    /\ ret.op = opDel /\ ~ret.had =>
          /\ ~ret.dirty
          /\ MapLookup(mem, ret.key) = NotFound
          /\ nfault = 0 /\ state = "open" => ~ret.err
    /\ AfterCleanSession /\ prev.how \in {"close", "kill"} /\ Len(prev.calls) >= 2 =>
          LET n == Len(prev.calls) IN
          prev.calls[n].op = opDel /\ prev.calls[n - 1] = prev.calls[n] =>
              /\ prev.same
              /\ MapLookup(mem, prev.calls[n].key) = NotFound
              /\ mem = ApplyCalls(EmptyMap, SubSeq(prev.calls, 1, n - 1), 1)

\* C16's case: Set("a", "1"), Del("a"), Del("a"), Close, and the store reopened
C16_Witness ==
    /\ AfterCleanSession
    /\ prev.how = "close"
    /\ prev.calls = << [op |-> opSet, key |-> <<97>>, val |-> <<49>>],
                       [op |-> opDel, key |-> <<97>>, val |-> <<>>],
                       [op |-> opDel, key |-> <<97>>, val |-> <<>>] >>
    /\ mem = EmptyMap

\* C17: when a server that is in the ring is removed, every key that was
\* routed to another server is routed to that same server afterwards.
C17_RemovalIsLocal ==
    removed # NoNode =>
        \A k \in RingKeys :
            routed[k].ok /\ routed[k].addr # removed
                => RingRoute(keys, lookup, k) = routed[k]

\* C18: after a Set that returned nil, keysUsed is within maxKeys when
\* maxKeys > 0 and bytesUsed within maxBytes when maxBytes > 0, with each of
\* the three evictors.
C18_StoreLimits ==
    eret.op = "set" /\ ~eret.err =>
        /\ maxKeys > 0 => keysUsed <= maxKeys
        /\ maxBytes > 0 => bytesUsed <= maxBytes

\* C18's case: a Set under the LFU policy that evicted two entries to get
\* within maxBytes
C18_Witness ==
    /\ eret.op = "set"
    /\ ~eret.err
    /\ evictor.name = "LFU"
    /\ eret.evicted = 2
    /\ maxBytes > 0
    /\ bytesUsed <= maxBytes

\* the bytes of the SET record of key -> val
SetRecord(key, val) ==
    IF key \in Keys /\ val \in Vals THEN Encoded[opSet][key][val]
    ELSE RecordBytes(opSet, key, val)

\* the file holds, whole, a SET record of key -> val
Logged(f, key, val) ==
    \E r \in {SetRecord(key, val)} :
        \E i \in 1..Len(f) :
            i + Len(r) - 1 <= Len(f) /\ SubSeq(f, i, i + Len(r) - 1) = r

\* C19: in every state, under concurrent calls too, every key -> value pair of
\* the table is the value of a SET record for that key that the log file holds
\* whole, written and flushed.
C19_WriteAhead == \A k \in DOMAIN mem : Logged(file, k, mem[k])

\* C19's case: in a store opened again, a Set has put its value into the table
\* while another call's record has been appended and not yet applied
C19_Witness ==
    /\ nopen > 0
    /\ ret.op = opSet
    /\ ~ret.err
    /\ ret.key \in DOMAIN mem
    /\ mem[ret.key] = ret.val
    /\ \E t \in Threads : pc[t] = "apply" /\ call[t].op = opSet /\ call[t].val # ret.val
                          /\ call[t].key = ret.key

\* the offset in the file at which record i of segs ends
RECURSIVE SegEnd(_)
SegEnd(i) == IF i = 0 THEN 0 ELSE segs[i].n + SegEnd(i - 1)

\* C20: under policy 1 a Set/Del reaches its table update, and returns nil,
\* only when an fsync covering its record has returned; every entry of the
\* table that the session wrote is the value of a SET record within the part
\* of the file that is on stable storage.
C20_VisibleImpliesDurable ==
    fsyncEvery = 1 =>
        /\ \A t \in Threads : pc[t] = "apply" => SegEnd(call[t].seg) <= synced
        /\ ret.op \in {opSet, opDel} /\ ~ret.err => SegEnd(ret.seg) <= synced
        /\ \A k \in DOMAIN mem :
              \/ k \in DOMAIN sess.table0 /\ sess.table0[k] = mem[k]
              \/ Logged(SubSeq(file, 1, synced), k, mem[k])

\* C20's case: under policy 1 a Set has returned nil and its value, which the
\* store was not opened with, is in the table, while the other goroutine's
\* record has been appended and not yet synced
C20_Witness ==
    /\ fsyncEvery = 1
    /\ ret.op = opSet
    /\ ~ret.err
    /\ ret.key \in DOMAIN mem
    /\ mem[ret.key] = ret.val
    /\ ~(ret.key \in DOMAIN sess.table0 /\ sess.table0[ret.key] = ret.val)
    /\ \E t \in Threads : pc[t] = "sync"
    /\ synced < Len(file)

\* the records of the appendRecord calls of o that ended well, in their order
RECURSIVE RecordsOf(_)
RecordsOf(o) ==
    IF o = <<>> THEN <<>>
    ELSE (IF o[1].st = "ok" THEN Encoded[o[1].op][o[1].key][o[1].val] ELSE <<>>)
         \o RecordsOf(Tail(o))

\* C21: with concurrent Set/Del callers, the log file is at every moment the
\* whole records of the appends that succeeded, in the order in which the
\* callers acquired the writer mutex; at most one append is under way, it is
\* the last to have acquired the mutex, and what it has written so far is the
\* beginning of its own record.
C21_NoInterleavedRecords ==
    /\ file = RecordsOf(order)
    /\ \A i \in 1..Len(order) :
          order[i].st = "busy" =>
              /\ i = Len(order)
              /\ wmu = order[i].t
              /\ \E rec \in {Encoded[order[i].op][order[i].key][order[i].val]} :
                    bufw.buf = SubSeq(rec, 1, Len(bufw.buf))

\* C21's case: the records of two goroutines are in the file and a third
\* append is in the middle of writing its record to the buffer
C21_Witness ==
    /\ Len(order) = 3
    /\ order[1].t # order[2].t
    /\ order[1].st = "ok" /\ order[2].st = "ok"
    /\ order[3].st = "busy"
    /\ at[order[3].t] = "crc"
    /\ Len(file) = RecordLen(order[1].key, order[1].val) + RecordLen(order[2].key, order[2].val)

\* the goroutine whose record is the last in the file (0: the file is empty)
RECURSIVE LastAppender(_)
LastAppender(o) ==
    IF o = <<>> THEN 0
    ELSE IF o[Len(o)].st = "ok" THEN o[Len(o)].t
    ELSE LastAppender(SubSeq(o, 1, Len(o) - 1))

\* C22: under policy 1, from the flush of a caller's record to the fsync of
\* that same call no other caller's record is appended: while the call is
\* about to sync, its record is the last of the file.
C22_SyncInSameSection ==
    \A t \in Threads : at[t] \in {"slock", "sync"} => LastAppender(order) = t

\* the left-to-right fold of a log of records: SET inserts or overwrites the
\* key, DEL removes it if present
RECURSIVE FoldLog(_, _)
FoldLog(m, sg) ==
    IF sg = <<>> THEN m
    ELSE FoldLog(IF sg[1].op = opSet
                 THEN [k \in DOMAIN m \cup {sg[1].key} |->
                          IF k = sg[1].key THEN sg[1].val ELSE m[k]]
                 ELSE [k \in DOMAIN m \ {sg[1].key} |-> m[k]],
                 Tail(sg))

\* the log is whole records with keys of at least one byte
ValidLog(sg) == \A i \in 1..Len(sg) : Whole(sg[i]) /\ sg[i].key # <<>>

\* C23: OpenKV on a log of valid records makes one apply call per record, in
\* file order, and returns the table that is the left-to-right fold of the
\* log, SET inserting or overwriting the key and DEL removing it.
C23_ReplayIsFold ==
    prev.valid /\ ValidLog(segs) =>
        /\ Len(prev.calls) = Len(segs)
        /\ \A i \in 1..Len(segs) :
              prev.calls[i] = [op |-> segs[i].op, key |-> segs[i].key, val |-> segs[i].val]
        /\ mem = FoldLog(EmptyMap, segs)

\* C23's case: a log of a DEL of a key that is not there, a SET and a SET
\* overwriting it, each applied once in that order
C23_Witness ==
    /\ prev.valid
    /\ Len(segs) = 3
    /\ ValidLog(segs)
    /\ segs[1].op = opDel
    /\ segs[2].op = opSet
    /\ segs[3].op = opSet
    /\ segs[3].val # segs[2].val
    /\ Len(prev.calls) = 3
    /\ mem = [k \in {segs[3].key} |-> segs[3].val]

\* the lengths in the header of record number r, as the file holds them
KeyLenAt(r) == Uint32(SubSeq(rfile, RStart(rlog, r) + 2, RStart(rlog, r) + 5))
ValLenAt(r) == Uint32(SubSeq(rfile, RStart(rlog, r) + 6, RStart(rlog, r) + 9))

\* keyLen == 0, keyLen > 2^20 or valLen > 64 * 2^20
Malformed(keyLen, valLen) ==
    keyLen = 0 \/ keyLen > 1048576 \/ valLen > 64 * 1048576

\* the first record of the log with an empty key (Len(log) + 1: none)
RECURSIVE FirstEmptyKey(_, _)
FirstEmptyKey(log, i) ==
    IF i > Len(log) \/ log[i].key = <<>> THEN i ELSE FirstEmptyKey(log, i + 1)

\* C24: a header whose keyLen is 0 or above 2^20, or whose valLen is above
\* 64 * 2^20, ends replay at its record, whatever follows the header, be it a
\* payload with a matching checksum: the records before it are applied, it
\* and the records after it are not, and no error is reported.
C24_MalformedLengthsEndReplay ==
    /\ rout.done /\ rdmg.kind = "flip" /\ rdmg.region \in {"keyLen", "valLen"}
       /\ Malformed(KeyLenAt(rdmg.rec), ValLenAt(rdmg.rec)) =>
          ~rout.err /\ rout.calls = SubSeq(rlog, 1, rdmg.rec - 1)
    /\ rout.done /\ rdmg.kind = "forged" =>
          ~rout.err /\ rout.calls = SubSeq(rlog, 1, FirstEmptyKey(rlog, 1) - 1)

\* C24's case: between two records of the key "a", a complete record with
\* keyLen 0 and a matching checksum; replay applied the first alone
C24_Witness ==
    /\ rout.done
    /\ rdmg.kind = "forged"
    /\ Len(rlog) = 3
    /\ rlog[1].key = RKey /\ rlog[1].op = opSet
    /\ rlog[2].key = <<>> /\ rlog[2].op = opSet
    /\ rlog[3].key = RKey /\ rlog[3].op = opSet
    /\ rout.calls = << rlog[1] >>

\* C24's other cases: a flipped bit made keyLen larger than 2^20, or valLen
\* larger than 64 * 2^20, in the second record of three
C24_WitnessLarge ==
    /\ rout.done
    /\ rdmg.kind = "flip"
    /\ rdmg.rec = 2
    /\ Len(rlog) = 3
    /\ KeyLenAt(2) > 1048576 \/ ValLenAt(2) > 64 * 1048576
    /\ Len(rout.calls) = 1

\* the records of a log whose op byte is opSet or opDel
RECURSIVE KnownOps(_)
KnownOps(log) ==
    IF log = <<>> THEN <<>>
    ELSE (IF log[1].op \in {opSet, opDel} THEN << log[1] >> ELSE <<>>)
         \o KnownOps(Tail(log))

\* C28: a complete record with a matching checksum, a key of at least one
\* byte and an op byte that is neither 1 nor 2 does not end replay and is no
\* error: replay hands it to the callback like any record, the callback
\* leaves the table as it is, and the records after it are applied.  The
\* table OpenKV builds is the fold of the SET and DEL records alone.
C28_UnknownOpSkipped ==
    rout.done /\ rdmg.kind = "forged" /\ FirstEmptyKey(rlog, 1) > Len(rlog) =>
        /\ ~rout.err
        /\ rout.calls = rlog
        /\ ApplyCalls(EmptyMap, rout.calls, 1) = FoldLog(EmptyMap, KnownOps(rlog))

\* C28's case: a SET, a record of the same key with op byte 3, and a SET of
\* another value after it, which the table holds
C28_Witness ==
    /\ rout.done
    /\ rdmg.kind = "forged"
    /\ Len(rlog) = 3
    /\ \A i \in 1..3 : rlog[i].key = RKey
    /\ rlog[1] = [op |-> opSet, key |-> RKey, val |-> <<49>>]
    /\ rlog[2].op = OtherOp /\ rlog[2].val = <<49>>
    /\ rlog[3] = [op |-> opSet, key |-> RKey, val |-> <<>>]
    /\ Len(rout.calls) = 3
    /\ ApplyCalls(EmptyMap, rout.calls, 1) = [k \in {RKey} |-> <<>>]

\* f is the beginning of g
IsPrefix(f, g) == Len(f) <= Len(g) /\ SubSeq(g, 1, Len(f)) = f

\* C25: every step of a Set, Del, Sync, Close or OpenKV, whether it succeeds
\* or fails, leaves the bytes the log file already held where they were: the
\* file before the step is the beginning of the file after it.  (Only a stop
\* of the process in which the device loses unsynced bytes shortens it.)
C25_AppendOnly ==
    [][(\E n \in 0..MaxFile : Crash(n)) \/ IsPrefix(file, file')]_vars

\* C25's case: a store opened on a log that ends in an incomplete record has
\* appended a record behind it
C25_Witness ==
    /\ state = "open"
    /\ nopen > 0
    /\ sess.torn
    /\ Len(file) > Len(sess.file0)
    /\ IsPrefix(sess.file0, file)
    /\ ret.op = opSet /\ ~ret.err

\* C26: no step of a Get, of a key that is present or of one that is not,
\* changes the log file, what of it is synced, the writer's buffer or mutex,
\* or the table.
C26_GetHasNoSideEffects ==
    [][\A t \in Threads :
          \/ \E k \in Keys : LCall(t, GetOp, k, <<>>)
          \/ GetRLock(t)
          \/ GetRead(t)
          => UNCHANGED << file, synced, bufw, fclosed, mem, wmu, order >>]_vars

\* C26's case: a Get of a key that is not in a table that holds another key
\* has returned, while an append of the other goroutine is under way
C26_Witness ==
    /\ done.op = GetOp
    /\ ~done.out.found
    /\ done.key \notin DOMAIN mem
    /\ mem # EmptyMap
    /\ file # <<>>
    /\ wmu # 0 /\ wmu # done.t

\* C27: whatever the caller has written into the slices it passed to Set
\* (after Set returned) or was returned by Get, a Get of a key returns the
\* value the last Set of that key was called with.
C27_DefensiveCopies ==
    /\ \A k \in DOMAIN memp : heap[memp[k]] = want[k]
    /\ cgot.found => cgot.val = want[cgot.key]
    /\ \A k \in DOMAIN memp : memp[k] \notin DOMAIN held

\* C27's case: the caller has overwritten both the slice it passed to Set and
\* the slice a Get returned, and a later Get returned the value Set was given
C27_Witness ==
    /\ cgot.found
    /\ cgot.val = want[cgot.key]
    /\ \E a \in DOMAIN held, b \in DOMAIN held :
          /\ held[a] = "set" /\ held[b] = "get"
          /\ a < b /\ b < cgot.addr
          /\ memp[cgot.key] = a + 1
          /\ heap[a] # cgot.val
          /\ heap[b] # cgot.val

\* C29: no goroutine holds w.mu and kv.mu at the same time, and under fair
\* scheduling, with Get, Set, Del and Close called concurrently, every call
\* returns.
C29_EveryCallReturns ==
    /\ [](\A t \in Threads : wmu = t => kvmu.w # t /\ t \notin kvmu.r)
    /\ \A t \in Threads : (at[t] # "idle") ~> (at[t] = "idle")

\* C29's case: a Set waits for w.mu, which a Close of the other goroutine
\* holds, after an append of its own
C29_Witness ==
    \E t \in Threads, u \in Threads :
        /\ t # u
        /\ at[t] = "lock"
        /\ job[t].op = opSet
        /\ at[u] = "close"
        /\ wmu = u
        /\ \E i \in 1..Len(order) : order[i].t = t /\ order[i].st = "ok"

\* C30: once the concurrent Deposit(amount) calls of all N workers have
\* returned, balance is the initial balance plus N * amount and version is N.
C30_NoLostUpdate ==
    (\A w \in Workers : dpc[w] = "done") =>
        balance = NWorkers * amount /\ version = NWorkers

\* C31: with the LFU evictor no Del and no eviction is left in a loop that
\* never ends: OnRemove returns in every reachable state, the removal of the
\* only remaining entry included.
C31_LFURemovalTerminates == evictor.name = "LFU" => ~stuck

\* the Config in which exactly the updaters of U have had their fn applied
\* to NewStore's Config
ConfigAfter(U) ==
    [Routes |-> [k \in {"home"} \cup {RouteOf(u) : u \in U} |->
                    IF k = "home" THEN "/" ELSE PathOf(CHOOSE u \in U : RouteOf(u) = k)],
     Limit |-> InitialLimit + Cardinality(U)]

\* C32: once every Update call has returned the published Config holds the
\* effect of every call's fn; and a Config that Load returned had whole fns
\* applied to it, and is the same ever after.
C32_CopyOnWriteLosesNoUpdate ==
    /\ (\A u \in Updaters : upc[u] = "done")
          => ConfigAt(configs, routemaps, sp) = ConfigAfter(Updaters)
    /\ \A l \in loaded :
          /\ ConfigAt(configs, routemaps, l.addr) = l.cfg
          /\ \E U \in SUBSET Updaters : l.cfg = ConfigAfter(U)

\* C32's case: an updater lost the CompareAndSwap and retried, every Update
\* has returned, and Load returned each of the Configs published on the way
C32_Witness ==
    /\ \A u \in Updaters : upc[u] = "done"
    /\ Len(configs) > 1 + NUpdaters
    /\ \A U \in {{}, Updaters} : \E l \in loaded : l.cfg = ConfigAfter(U)
    /\ Cardinality(loaded) > 2

\* C33: after a Set(k, v) of the eviction store that returned nil the entry
\* of k is present and holds v, so a Get(k) that follows returns v: the
\* eviction of a Set never removes the entry the Set wrote, with each of the
\* three evictors.
C33_ReadYourWrite ==
    eret.op = "set" /\ ~eret.err =>
        /\ eret.key \in DOMAIN items
        /\ items[eret.key].Value = eret.val

\* len(key) + len(value), summed over the entries of keys K of m
RECURSIVE SumBytes(_, _)
SumBytes(m, K) ==
    IF K = {} THEN 0
    ELSE LET k == CHOOSE x \in K : TRUE
         IN  Len(k) + Len(m[k].Value) + SumBytes(m, K \ {k})

\* the keys an evictor tracks
Tracked(e) ==
    IF e.name = "LRU" THEN e.nodes
    ELSE IF e.name = "LFU" THEN DOMAIN e.items
    ELSE DOMAIN e.idx

\* C34: whenever no call is in progress on the eviction store, keysUsed is
\* the number of entries in items, bytesUsed is the sum over the entries of
\* len(key) + len(value), and the evictor tracks exactly the keys in items.
C34_StoreAccounting ==
    ~stuck =>
        /\ keysUsed = Cardinality(DOMAIN items)
        /\ bytesUsed = SumBytes(items, DOMAIN items)
        /\ Tracked(evictor) = DOMAIN items

\* C34's case: a Set under the Random policy evicted one entry and left two,
\* of five bytes in all
C34_Witness ==
    /\ eret.op = "set"
    /\ ~eret.err
    /\ eret.evicted = 1
    /\ evictor.name = "RANDOM"
    /\ keysUsed = 2
    /\ bytesUsed = 5
    /\ Cardinality(DOMAIN items) = 2

\* the LRU evictor's Victim() is the tracked key whose most recent
\* OnAdd/OnGet/OnUpdate is the oldest, nil when nothing is tracked
VictimIsOldest ==
    evictor.name = "LRU" =>
        /\ Tracked(evictor) = DOMAIN lastUse
        /\ LRUVictim(evictor) =
              IF DOMAIN lastUse = {} THEN {NoVictim}
              ELSE {k \in DOMAIN lastUse : \A j \in DOMAIN lastUse : lastUse[k] <= lastUse[j]}

\* a Set under the LRU policy evicts the keys least recently used: each key
\* it evicted was used before every key it left, its own key the most recent
EvictsOldest ==
    evictor.name = "LRU" /\ eret'.op = "set" /\ ~eret'.err =>
        \E before \in {Used(lastUse, eret'.key)} :
            /\ Cardinality(DOMAIN before \ DOMAIN items') = eret'.evicted
            /\ \A k \in DOMAIN before \ DOMAIN items', j \in DOMAIN items' :
                  before[k] < before[j]

\* C35: LRUEvictor.Victim returns the tracked entry whose most recent
\* OnAdd/OnGet/OnUpdate is the oldest (nil when nothing is tracked), and so
\* with the LRU policy the store evicts keys in least-recently-used order.
C35_LRUVictimSelection == []VictimIsOldest /\ [][EvictsOldest]_vars

\* C35's case: under the LRU policy with maxKeys = 2 the Set of "cc" evicted
\* one of "a" and "b" and left "a", the older of the two keys left
C35_Witness ==
    /\ evictor.name = "LRU"
    /\ maxKeys = 2
    /\ eret.op = "set"
    /\ eret.key = <<99, 99>>
    /\ eret.evicted = 1
    /\ DOMAIN items = { <<97>>, <<99, 99>> }
    /\ evictor.ll = << <<99, 99>>, <<97>> >>
    /\ lastUse[<<97>>] = 1

====
